---------------------------- MODULE Spec2Model ----------------------------
(***************************************************************************)
(* A model of the ESY SunHome binary MQTT protocol codec                   *)
(* (custom_components/esy_sunhome/protocol.py), of the InverterState view  *)
(* over a decoded snapshot (battery.py), of the coordinator's protocol    *)
(* hot swap and MQTT listener (coordinator.py), of the battery's MQTT      *)
(* listener (battery.py) and of the REST client (esysunhome.py).           *)
(*                                                                         *)
(* Representation choices:                                                 *)
(*  - a Python bytes object is a sequence of numbers in 0..255;            *)
(*  - a Python int that can exceed 2^31-1 (config_id, msg_id, the message  *)
(*    counter) is a record [hi, lo] of two 16-bit halves, denoting         *)
(*    hi * 65536 + lo;                                                     *)
(*  - a call that can raise returns a record with a field ok (FALSE when   *)
(*    the Python code raises);                                             *)
(*  - Optional[X] is a record [some, val].                                 *)
(***************************************************************************)
EXTENDS Integers, Sequences, FiniteSets, TLC

VARIABLES
    h,              \* header round trip: the MsgHeader given to to_bytes
    ser,            \* header round trip: what to_bytes returned
    back,           \* header round trip: what from_bytes returned for ser
    seg_input,      \* payload decode: the bytes given to parse_params_list
    plist,          \* payload decode: the ParamsListBean returned
    frame,          \* frame decode: the buffer received (None or bytes)
    hres,           \* frame decode: what MsgHeader.from_bytes returned
    tres,           \* frame decode: what parse_message returned
    msg_id_counter, \* ESYCommandBuilder._msg_id_counter
    user_id_bytes,  \* ESYCommandBuilder.user_id_bytes
    cmd_last,       \* what the latest build_*_command call returned
    cmd_prev,       \* what the call before it returned
    cmd_req,        \* what the caller of the latest build call asked for
    pp_data,        \* PayloadParser.data of the parser two callers share
    pp_position,    \* PayloadParser.position of that parser
    callers,        \* the two parse_message calls in progress on it
    protocol,       \* ESYSunhomeCoordinator.protocol
    parser_protocol,\* the definition held by ESYSunhomeCoordinator.parser
    dec,            \* the parse_message call of _process_telemetry
    last_data,      \* ESYSunhomeCoordinator._last_data
    sq_data,        \* PayloadParser.data of a parser fed frame after frame
    sq_position,    \* PayloadParser.position of that parser
    sq,             \* the frames it has parsed so far and the latest result
    w16,            \* two bytes and what bytes_to_int16_be made of them
    mode,           \* a run-mode code and the label InverterState gives it
    uid_call,       \* a user id string and what user_id_to_bytes made of it
    api,            \* the REST client's tokens and device id
    api_stack,      \* the client's coroutine activations, innermost last
    api_ret,        \* what the activation that ended last returned or raised
    api_top,        \* the call made on the client and what it has seen
    api_finished,   \* the activation that ended last, with its outcome
    co,             \* the coordinator: MQTT flags, listener task, cache
    upd,            \* the _async_update_data call in progress or last made
    pub,            \* the last publish_command call
    bat             \* the battery controller: flag, listener task, cache

hdrVars == <<h, ser, back>>

segVars == <<seg_input, plist>>

msgVars == <<frame, hres, tres>>

cmdVars == <<msg_id_counter, user_id_bytes, cmd_last, cmd_prev, cmd_req>>

conVars == <<pp_data, pp_position, callers>>

swapVars == <<protocol, parser_protocol, dec, last_data>>

seqVars == <<sq_data, sq_position, sq>>

wordVars == <<w16>>

modeVars == <<mode>>

uidVars == <<uid_call>>

apiVars == <<api, api_stack, api_ret, api_top, api_finished>>

mqttVars == <<co, upd, pub, bat>>

vars ==
    <<hdrVars, segVars, msgVars, cmdVars, conVars, swapVars, seqVars,
      wordVars, modeVars, uidVars, apiVars, mqttVars>>

notHdr ==
    <<segVars, msgVars, cmdVars, conVars, swapVars, seqVars, wordVars,
      modeVars, uidVars, apiVars, mqttVars>>

notSeg ==
    <<hdrVars, msgVars, cmdVars, conVars, swapVars, seqVars, wordVars,
      modeVars, uidVars, apiVars, mqttVars>>

notMsg ==
    <<hdrVars, segVars, cmdVars, conVars, swapVars, seqVars, wordVars,
      modeVars, uidVars, apiVars, mqttVars>>

notCmd ==
    <<hdrVars, segVars, msgVars, conVars, swapVars, seqVars, wordVars,
      modeVars, uidVars, apiVars, mqttVars>>

notCon ==
    <<hdrVars, segVars, msgVars, cmdVars, swapVars, seqVars, wordVars,
      modeVars, uidVars, apiVars, mqttVars>>

notSwap ==
    <<hdrVars, segVars, msgVars, cmdVars, conVars, seqVars, wordVars,
      modeVars, uidVars, apiVars, mqttVars>>

notSeq ==
    <<hdrVars, segVars, msgVars, cmdVars, conVars, swapVars, wordVars,
      modeVars, uidVars, apiVars, mqttVars>>

notWord ==
    <<hdrVars, segVars, msgVars, cmdVars, conVars, swapVars, seqVars,
      modeVars, uidVars, apiVars, mqttVars>>

notMode ==
    <<hdrVars, segVars, msgVars, cmdVars, conVars, swapVars, seqVars,
      wordVars, uidVars, apiVars, mqttVars>>

notUid ==
    <<hdrVars, segVars, msgVars, cmdVars, conVars, swapVars, seqVars,
      wordVars, modeVars, apiVars, mqttVars>>

notApi ==
    <<hdrVars, segVars, msgVars, cmdVars, conVars, swapVars, seqVars,
      wordVars, modeVars, uidVars, mqttVars>>

notMqtt ==
    <<hdrVars, segVars, msgVars, cmdVars, conVars, swapVars, seqVars,
      wordVars, modeVars, uidVars, apiVars>>
-----------------------------------------------------------------------------
(* Constants of protocol.py *)

HEADER_SIZE == 24

Byte == 0 .. 255

Min(a, b) == IF a <= b THEN a ELSE b

Max(a, b) == IF a >= b THEN a ELSE b

(* Python's data[a:b] for 0 <= a, 0 <= b *)
Slice(s, a, b) ==
    LET e == Min(b, Len(s))
    IN  IF a >= e THEN <<>> ELSE SubSeq(s, a + 1, e)

(* Python's bytes(n) / bytearray(n): n zero bytes *)
Zeros(n) == [i \in 1 .. n |-> 0]

-----------------------------------------------------------------------------
(* BYTE CONVERSION UTILITIES *)

U32(hi, lo) == [hi |-> hi, lo |-> lo]

U32Zero == U32(0, 0)

(* b3 | b2 << 8 | b1 << 16 | b0 << 24, as the halves (b0 b1, b2 b3) *)
bytes_to_uint32_be(data) ==
    IF Len(data) < 4
    THEN U32Zero
    ELSE U32((data[1] % 256) * 256 + (data[2] % 256),
             (data[3] % 256) * 256 + (data[4] % 256))

bytes_to_uint16_be(b0, b1) == ((b0 % 256) * 256) + (b1 % 256)

(* bytes_to_int16_be with the sign test one too high *)
bytes_to_int16_be_above(b0, b1) ==
    LET value == (b0 * 256) + (b1 % 256)
    IN  IF value > 32768 THEN value - 65536 ELSE value

bytes_to_int16_be(b0, b1) ==
    LET value == (b0 * 256) + (b1 % 256)
    IN  IF value >= 32768 THEN value - 65536 ELSE value

(* struct.pack('>i', value): value is a non-negative int here; the signed *)
(* format raises struct.error for value > 2^31 - 1, i.e. hi >= 0x8000.    *)
int32_to_bytes_be(value) ==
    IF value.hi >= 32768
    THEN [ok |-> FALSE, bytes |-> <<>>]
    ELSE [ok |-> TRUE,
          bytes |-> << value.hi \div 256, value.hi % 256,
                       value.lo \div 256, value.lo % 256 >>]

(* bytes([(value >> 8) & 0xFF, value & 0xFF]) *)
int16_to_bytes_be(value) == << (value \div 256) % 256, value % 256 >>

(* A string is a sequence of characters: 0..9 are the digits '0'..'9', *)
(* 10 is a character that is no digit.                                 *)
isdigit(chars) == Len(chars) > 0 /\ \A i \in 1 .. Len(chars) : chars[i] \in 0 .. 9

(* 10 * n + carry on a number held as base-256 digits, lowest first *)
RECURSIVE times_ten_plus(_, _)
times_ten_plus(le, carry) ==
    IF le = <<>>
    THEN IF carry = 0 THEN <<>> ELSE <<carry>>
    ELSE LET x == Head(le) * 10 + carry
         IN  <<x % 256>> \o times_ten_plus(Tail(le), x \div 256)

(* int(user_id), as base-256 digits, lowest first, none for 0 *)
RECURSIVE int_of_digits(_, _, _)
int_of_digits(chars, i, le) ==
    IF i > Len(chars) THEN le
    ELSE int_of_digits(chars, i + 1, times_ten_plus(le, chars[i]))

Reverse(q) == [i \in 1 .. Len(q) |-> q[Len(q) + 1 - i]]

(* bin(value)[2:] padded on the left to whole bytes, cut into bytes: the *)
(* big-endian bytes of the value, one zero byte for 0                    *)
binary_bytes(chars) ==
    LET le == int_of_digits(chars, 1, <<>>)
    IN  IF le = <<>> THEN <<0>> ELSE Reverse(le)

(* The for loop of user_id_to_bytes from i on.  result[k] with k in     *)
(* -8..-1 addresses result[k + 8]; k < -8 raises IndexError, which the  *)
(* except clause (ValueError, OverflowError) does not catch.            *)
RECURSIVE place_bytes(_, _, _)
place_bytes(result, vb, i) ==
    IF i >= Len(vb)
    THEN [ok |-> TRUE, bytes |-> result]
    ELSE LET k == 7 - (Len(vb) - 1 - i)
         IN  IF k < -8
             THEN [ok |-> FALSE, bytes |-> <<>>]
             ELSE place_bytes([result EXCEPT ![(IF k < 0 THEN k + 8 ELSE k) + 1] = vb[i + 1]],
                              vb, i + 1)

(* user_id_to_bytes *)
user_id_to_bytes(chars) ==
    IF ~isdigit(chars)
    THEN [ok |-> TRUE, bytes |-> Zeros(8)]
    ELSE place_bytes(Zeros(8), binary_bytes(chars), 0)

-----------------------------------------------------------------------------
(* MESSAGE HEADER *)

MsgHeader(config_id, msg_id, user_id, fun_code, source_id, page_index, data_length) ==
    [config_id |-> config_id, msg_id |-> msg_id, user_id |-> user_id,
     fun_code |-> fun_code, source_id |-> source_id,
     page_index |-> page_index, data_length |-> data_length]

DefaultHeader == MsgHeader(U32Zero, U32Zero, Zeros(8), 0, 0, 0, 0)

NoHeader == [some |-> FALSE, raised |-> FALSE, val |-> DefaultHeader]

SomeHeader(v) == [some |-> TRUE, raised |-> FALSE, val |-> v]

(* An input buffer: None, or a bytes object *)
NoneBuf == [isNone |-> TRUE, bytes |-> <<>>]

Buf(b) == [isNone |-> FALSE, bytes |-> b]

(* from_bytes with the length guard one byte short *)
from_bytes_short_guard(data) ==
    IF data.isNone \/ Len(data.bytes) < HEADER_SIZE - 1
    THEN [some |-> FALSE, raised |-> FALSE,
          val |-> [config_id |-> U32Zero, msg_id |-> U32Zero, user_id |-> Zeros(8),
                   fun_code |-> 0, source_id |-> 0, page_index |-> 0,
                   data_length |-> 0]]
    ELSE [some |-> FALSE, raised |-> Len(data.bytes) < 24,
          val |-> [config_id |-> U32Zero, msg_id |-> U32Zero, user_id |-> Zeros(8),
                   fun_code |-> 0, source_id |-> 0, page_index |-> 0,
                   data_length |-> 0]]

(* MsgHeader.from_bytes.  data[16], data[17], data[18], data[22], data[23] *)
(* are plain indexing: they raise IndexError on a buffer shorter than 24,  *)
(* which the length guard is there to exclude.                             *)
from_bytes(data) ==
    IF data.isNone \/ Len(data.bytes) < HEADER_SIZE
    THEN NoHeader
    ELSE IF Len(data.bytes) < 24
    THEN [some |-> FALSE, raised |-> TRUE, val |-> DefaultHeader]
    ELSE LET d == data.bytes
         IN  SomeHeader(MsgHeader(
                 bytes_to_uint32_be(Slice(d, 0, 4)),
                 bytes_to_uint32_be(Slice(d, 4, 8)),
                 Slice(d, 8, 16),
                 d[17] % 256,
                 d[18] % 256,
                 d[19] % 256,
                 bytes_to_uint16_be(d[23], d[24])))

(* user_bytes[:8].ljust(8, b'\x00') *)
Ljust8(b) ==
    LET t == Slice(b, 0, 8)
    IN  t \o Zeros(8 - Len(t))

(* MsgHeader.to_bytes *)
to_bytes(self) ==
    LET c == int32_to_bytes_be(self.config_id)
        m == int32_to_bytes_be(self.msg_id)
    IN  IF ~c.ok \/ ~m.ok
        THEN [ok |-> FALSE, bytes |-> <<>>]
        ELSE [ok |-> TRUE,
              bytes |-> c.bytes \o m.bytes \o Ljust8(self.user_id)
                        \o << self.fun_code % 256,
                              (self.source_id * 16) % 256,
                              self.page_index % 256,
                              0, 0, 0 >>
                        \o int16_to_bytes_be(self.data_length)]

-----------------------------------------------------------------------------
(* PARAMETER SEGMENT *)

ParamSegment(segment_id, segment_type, segment_address, params_num, values) ==
    [segment_id |-> segment_id, segment_type |-> segment_type,
     segment_address |-> segment_address, params_num |-> params_num,
     values |-> values]

ParamsListBean(segment_count, segments) ==
    [segment_count |-> segment_count, segments |-> segments]

-----------------------------------------------------------------------------
(* PAYLOAD PARSER *)

(* PayloadParser._read_uint16 on (self.data, self.position): the value read *)
(* and the new position                                                     *)
read_uint16(data, position) ==
    IF position + 2 > Len(data)
    THEN [value |-> 0, position |-> position]
    ELSE [value |-> bytes_to_uint16_be(data[position + 1], data[position + 2]),
          position |-> position + 2]

(* One pass of the body of the for loop of parse_params_list, after the    *)
(* sub-header guard: the four _read_uint16 calls and the value-bytes test. *)
(* Yields the segment appended and the position afterwards.                *)
read_segment(data, position) ==
    LET r1 == read_uint16(data, position)
        r2 == read_uint16(data, r1.position)
        r3 == read_uint16(data, r2.position)
        r4 == read_uint16(data, r3.position)
        value_bytes == r4.value * 2
        fits == r4.position + value_bytes <= Len(data)
    IN  [segment |-> ParamSegment(r1.value, r2.value, r3.value, r4.value,
                        IF fits
                        THEN Slice(data, r4.position, r4.position + value_bytes)
                        ELSE <<>>),
         position |-> IF fits THEN r4.position + value_bytes ELSE r4.position]

(* The for loop of parse_params_list: left iterations remain *)
RECURSIVE segment_loop(_, _, _, _)
segment_loop(data, position, left, segments) ==
    IF left = 0
    THEN segments
    ELSE IF position + 8 > Len(data)
    THEN segments
    ELSE LET r == read_segment(data, position)
         IN  segment_loop(data, r.position, left - 1, Append(segments, r.segment))

(* PayloadParser.parse_params_list, run by one caller alone *)
parse_params_list(data) ==
    IF Len(data) = 0
    THEN ParamsListBean(0, <<>>)
    ELSE LET c == read_uint16(data, 0)
         IN  ParamsListBean(c.value, segment_loop(data, c.position, c.value, <<>>))


-----------------------------------------------------------------------------
(* REGISTER DEFINITIONS *)

(* SEGMENT_KEY_MAP: segment id -> sequence of <<offset, key_name, data_type, *)
(* d>>, where the coefficient of the source is 1/d (1, 0.1, 0.01)            *)
SEGMENT_KEY_MAP ==
    [id \in 1 .. 10 |->
       CASE id = 1 -> << <<0, "systemRunMode", "unsigned", 1>>,
                         <<1, "systemRunStatus", "unsigned", 1>> >>
         [] id = 2 -> << <<0, "dcdcTemperature", "signed", 1>>,
                         <<1, "busVoltage", "unsigned", 10>>,
                         <<2, "dailyEnergyGeneration", "unsigned", 10>>,
                         <<3, "totalEnergyGeneration", "unsigned", 10>>,
                         <<5, "ratedPower", "unsigned", 1>>,
                         <<6, "outputRatedPower", "unsigned", 1>> >>
         [] id = 3 -> << <<0, "pv1voltage", "unsigned", 10>>,
                         <<1, "pv1current", "unsigned", 10>>,
                         <<2, "pv1Power", "unsigned", 1>>,
                         <<3, "pv2voltage", "unsigned", 10>>,
                         <<4, "pv2current", "unsigned", 10>>,
                         <<5, "pv2Power", "unsigned", 1>> >>
         [] id = 4 -> << <<0, "batteryStatus", "unsigned", 1>>,
                         <<1, "batteryVoltage", "unsigned", 10>>,
                         <<2, "batteryCurrent", "signed", 10>>,
                         <<3, "batteryPower", "signed", 1>>,
                         <<4, "battTotalSoc", "unsigned", 1>>,
                         <<5, "batterySoc", "unsigned", 1>>,
                         <<6, "battNum", "unsigned", 1>>,
                         <<7, "battEnergy", "unsigned", 10>> >>
         [] id = 5 -> << <<0, "gridStatus", "unsigned", 1>>,
                         <<1, "gridFreq", "unsigned", 100>>,
                         <<2, "gridVolt", "unsigned", 10>>,
                         <<3, "gridActivePower", "signed", 1>>,
                         <<4, "ct1Curr", "signed", 10>>,
                         <<5, "ct1Power", "signed", 1>>,
                         <<6, "ct2Curr", "signed", 10>>,
                         <<7, "ct2Power", "signed", 1>>,
                         <<8, "onOffGridMode", "unsigned", 1>> >>
         [] id = 6 -> << <<0, "invTemperature", "signed", 1>>,
                         <<1, "invStatus", "unsigned", 1>>,
                         <<2, "invOutputFreq", "unsigned", 100>>,
                         <<3, "invOutputVolt", "unsigned", 10>>,
                         <<4, "invOutputCurr", "unsigned", 10>>,
                         <<5, "invApparentPower", "signed", 1>>,
                         <<6, "invActivePower", "signed", 1>> >>
         [] id = 7 -> << <<0, "energyFlowPvTotalPower", "signed", 1>>,
                         <<1, "energyFlowBattPower", "signed", 1>>,
                         <<2, "energyFlowGridPower", "signed", 1>>,
                         <<3, "energyFlowLoadTotalPower", "signed", 1>> >>
         [] id = 8 -> << <<0, "loadVolt", "unsigned", 10>>,
                         <<1, "loadCurr", "unsigned", 10>>,
                         <<2, "loadActivePower", "signed", 1>>,
                         <<3, "loadRealTimePower", "signed", 1>> >>
         [] id = 9 -> << <<0, "dailyPowerConsumption", "unsigned", 10>>,
                         <<1, "totalEconsumption", "unsigned", 10>>,
                         <<3, "dailyGridConnectionPower", "unsigned", 10>>,
                         <<4, "totalOnGridElecGenerated", "unsigned", 10>>,
                         <<6, "dailyOnGridElecConsumption", "unsigned", 10>>,
                         <<7, "totalOnGridElecConsumption", "unsigned", 10>>,
                         <<9, "dailyBattChargeEnergy", "unsigned", 10>>,
                         <<10, "totalBattChargeEnergy", "unsigned", 10>>,
                         <<12, "dailyBattDischargeEnergy", "unsigned", 10>>,
                         <<13, "totalBattDischargeEnergy", "unsigned", 10>> >>
         [] OTHER  -> << <<0, "antiBackflowPowerPercentage", "unsigned", 1>>,
                         <<1, "batteryChargingCurrent", "unsigned", 10>>,
                         <<2, "batteryDischargeCurrent", "unsigned", 10>>,
                         <<3, "onGridSocLimit", "unsigned", 1>>,
                         <<4, "offGridSocLimit", "unsigned", 1>> >>]

(* SEGMENT_KEY_MAP.get(segment_id, []) *)
key_map_get(segment_id) ==
    IF segment_id \in DOMAIN SEGMENT_KEY_MAP THEN SEGMENT_KEY_MAP[segment_id] ELSE <<>>

-----------------------------------------------------------------------------
(* TELEMETRY PARSER *)

(* A number held in all_values: num / den.  den = 1 is a Python int; den in *)
(* {10, 100} is the float raw_value * coefficient.                          *)
Num(n, d) == [num |-> n, den |-> d]

Int0 == Num(0, 1)

(* int(x): truncation toward zero *)
IntOf(x) ==
    IF x.num >= 0 THEN x.num \div x.den ELSE -((-x.num) \div x.den)

(* The dict all_values, as two maps with disjoint key spaces: the semantic *)
(* keys (named) and the keys "reg_<addr>" (regs, indexed by addr).         *)
EmptyValues == [named |-> <<>>, regs |-> <<>>]

(* all_values.get(key, default) for a semantic key *)
Get(all_values, key, default) ==
    IF key \in DOMAIN all_values.named THEN all_values.named[key] ELSE default

(* the first loop reading every word unsigned before scaling it *)
RECURSIVE key_map_loop_unsigned(_, _, _, _)
key_map_loop_unsigned(values, key_map, i, named) ==
    IF i > Len(key_map)
    THEN named
    ELSE IF key_map[i][1] * 2 + 2 <= Len(values)
    THEN key_map_loop_unsigned(values, key_map, i + 1,
             (key_map[i][2] :>
                 Num(bytes_to_uint16_be(values[key_map[i][1] * 2 + 1],
                                        values[key_map[i][1] * 2 + 2]),
                     key_map[i][4])) @@ named)
    ELSE key_map_loop_unsigned(values, key_map, i + 1, named)

(* The first loop of _parse_segment_values, entries i .. Len(key_map) *)
RECURSIVE key_map_loop(_, _, _, _)
key_map_loop(values, key_map, i, named) ==
    IF i > Len(key_map)
    THEN named
    ELSE LET offset == key_map[i][1]
             key_name == key_map[i][2]
             data_type == key_map[i][3]
             d == key_map[i][4]
         IN  IF offset * 2 + 2 <= Len(values)
             THEN LET b0 == values[offset * 2 + 1]
                      b1 == values[offset * 2 + 2]
                      raw_value == IF data_type = "signed"
                                   THEN bytes_to_int16_be(b0, b1)
                                   ELSE bytes_to_uint16_be(b0, b1)
                  IN  key_map_loop(values, key_map, i + 1,
                                   (key_name :> Num(raw_value, d)) @@ named)
             ELSE key_map_loop(values, key_map, i + 1, named)

(* the second loop storing the unsigned reading of each word *)
reg_loop_unsigned(segment, regs) ==
    LET n == Min(segment.params_num, Len(segment.values) \div 2)
        new == [a \in { segment.segment_address + i : i \in 0 .. n - 1 } |->
                  LET i == a - segment.segment_address
                  IN  bytes_to_uint16_be(segment.values[2 * i + 1],
                                         segment.values[2 * i + 2])]
    IN  new @@ regs

(* The second loop of _parse_segment_values: reg_<addr> for every register *)
(* i < params_num whose two bytes are in values                            *)
reg_loop(segment, regs) ==
    LET n == Min(segment.params_num, Len(segment.values) \div 2)
        new == [a \in { segment.segment_address + i : i \in 0 .. n - 1 } |->
                  LET i == a - segment.segment_address
                  IN  bytes_to_int16_be(segment.values[2 * i + 1],
                                        segment.values[2 * i + 2])]
    IN  new @@ regs

(* ESYTelemetryParser._parse_segment_values: the dict after the call *)
parse_segment_values(segment, all_values) ==
    [named |-> key_map_loop(segment.values, key_map_get(segment.segment_id),
                            1, all_values.named),
     regs |-> reg_loop(segment, all_values.regs)]

RECURSIVE all_segment_values(_, _, _)
all_segment_values(segments, i, all_values) ==
    IF i > Len(segments)
    THEN all_values
    ELSE all_segment_values(segments, i + 1,
                            parse_segment_values(segments[i], all_values))

(* a snapshot holding just the keys the frame carried *)
build_telemetry_data_carried(params) ==
    LET all_values == all_segment_values(params.segments, 1, EmptyValues)
    IN  [all_values |-> all_values] @@ all_values.named

(* ESYTelemetryParser._build_telemetry_data: a TelemetryData *)
build_telemetry_data(params) ==
    LET all_values == all_segment_values(params.segments, 1, EmptyValues)
        G(key) == Get(all_values, key, Int0)
        pv1_power == IntOf(G("pv1Power"))
        pv2_power == IntOf(G("pv2Power"))
        pv_power == pv1_power + pv2_power
        battery_power == IntOf(G("batteryPower"))
        ct1_power == IntOf(G("ct1Power"))
        load_power == IntOf(G("loadRealTimePower"))
        grid_power == ct1_power
    IN  [ pv_power |-> pv_power,
          pv1_power |-> pv1_power,
          pv2_power |-> pv2_power,
          battery_power |-> battery_power,
          ct1_power |-> ct1_power,
          ct2_power |-> IntOf(G("ct2Power")),
          load_power |-> load_power,
          grid_power |-> grid_power,
          energy_flow_pv_total_power |->
              IntOf(Get(all_values, "energyFlowPvTotalPower", Num(pv_power, 1))),
          energy_flow_batt_power |->
              IntOf(Get(all_values, "energyFlowBattPower", Num(battery_power, 1))),
          energy_flow_grid_power |->
              IntOf(Get(all_values, "energyFlowGridPower", Num(grid_power, 1))),
          energy_flow_load_total_power |->
              IntOf(Get(all_values, "energyFlowLoadTotalPower", Num(load_power, 1))),
          on_off_grid_mode |-> IntOf(G("onOffGridMode")),
          system_run_mode |-> IntOf(G("systemRunMode")),
          system_run_status |-> IntOf(G("systemRunStatus")),
          battery_status |-> IntOf(G("batteryStatus")),
          grid_status |-> IntOf(G("gridStatus")),
          inv_status |-> IntOf(G("invStatus")),
          battery_soc |-> IntOf(Get(all_values, "battTotalSoc", G("batterySoc"))),
          battery_voltage |-> G("batteryVoltage"),
          battery_current |-> G("batteryCurrent"),
          batt_num |-> IntOf(G("battNum")),
          pv1_voltage |-> G("pv1voltage"),
          pv1_current |-> G("pv1current"),
          pv2_voltage |-> G("pv2voltage"),
          pv2_current |-> G("pv2current"),
          grid_voltage |-> G("gridVolt"),
          grid_frequency |-> G("gridFreq"),
          inv_temperature |-> IntOf(G("invTemperature")),
          inv_output_voltage |-> G("invOutputVolt"),
          inv_output_frequency |-> G("invOutputFreq"),
          daily_energy_generation |-> G("dailyEnergyGeneration"),
          total_energy_generation |-> G("totalEnergyGeneration"),
          daily_power_consumption |-> G("dailyPowerConsumption"),
          total_power_consumption |-> G("totalEconsumption"),
          daily_batt_charge_energy |-> G("dailyBattChargeEnergy"),
          daily_batt_discharge_energy |-> G("dailyBattDischargeEnergy"),
          daily_grid_import |-> G("dailyOnGridElecConsumption"),
          daily_grid_export |-> G("dailyGridConnectionPower"),
          rated_power |-> IntOf(Get(all_values, "ratedPower", G("outputRatedPower"))),
          anti_backflow_percentage |-> IntOf(G("antiBackflowPowerPercentage")),
          heating_state |-> IntOf(G("heatingState")),
          all_values |-> all_values ]

(* TelemetryData(): every field at its default *)
TelemetryData == build_telemetry_data(ParamsListBean(0, <<>>))

NoTelemetry == [some |-> FALSE, raised |-> FALSE, val |-> TelemetryData]

(* message_data that ignores the header's data_length: payload[24:] *)
message_data_to_end(payload, header) == Slice(payload, HEADER_SIZE, Len(payload))

(* The data portion parse_message hands to the payload parser *)
message_data(payload, header) ==
    LET data_start == HEADER_SIZE
        data_end0 == data_start + header.data_length
        data_end == IF data_end0 > Len(payload) THEN Len(payload) ELSE data_end0
    IN  Slice(payload, data_start, data_end)

(* parse_message without the "not payload" half of its first test *)
parse_message_len_only(payload) ==
    IF payload.isNone
    THEN [some |-> FALSE, raised |-> TRUE, val |-> TelemetryData]
    ELSE IF Len(payload.bytes) < HEADER_SIZE
    THEN NoTelemetry
    ELSE [some |-> TRUE, raised |-> FALSE,
          val |-> build_telemetry_data(
                    parse_params_list(
                      message_data(payload.bytes,
                          from_bytes(Buf(Slice(payload.bytes, 0, HEADER_SIZE))).val)))]

(* ESYTelemetryParser.parse_message *)
parse_message(payload) ==
    IF payload.isNone \/ Len(payload.bytes) = 0 \/ Len(payload.bytes) < HEADER_SIZE
    THEN NoTelemetry
    ELSE LET header == from_bytes(Buf(Slice(payload.bytes, 0, HEADER_SIZE)))
         IN  IF header.raised
             THEN [some |-> FALSE, raised |-> TRUE, val |-> TelemetryData]
             ELSE IF ~header.some
             THEN NoTelemetry
             ELSE [some |-> TRUE, raised |-> FALSE,
                   val |-> build_telemetry_data(
                             parse_params_list(
                               message_data(payload.bytes, header.val)))]

-----------------------------------------------------------------------------
(* COMMAND BUILDER *)

WRITE_SINGLE == 6

READ == 3

(* self._msg_id_counter + 1, on the two halves *)
Inc(u) == IF u.lo = 65535 THEN U32(u.hi + 1, 0) ELSE U32(u.hi, u.lo + 1)

Less(u, v) == u.hi < v.hi \/ (u.hi = v.hi /\ u.lo < v.lo)

(* ESYCommandBuilder._get_next_msg_id: the counter after the call, which *)
(* is also the value returned                                            *)
get_next_msg_id(counter) == Inc(counter)

(* ESYCommandBuilder.build_write_command, given the msg_id it drew *)
build_write_command(uid, msg_id, register_address, value, config_id) ==
    LET body == int16_to_bytes_be(register_address)
                \o int16_to_bytes_be(value % 65536)
        header == MsgHeader(U32(0, config_id), msg_id, uid,
                            WRITE_SINGLE, 2, 0, Len(body))
        hb == to_bytes(header)
    IN  IF hb.ok THEN [ok |-> TRUE, bytes |-> hb.bytes \o body]
                 ELSE [ok |-> FALSE, bytes |-> <<>>]

(* ESYCommandBuilder.build_read_command, given the msg_id it drew *)
build_read_command(uid, msg_id, register_address, register_count, config_id) ==
    LET body == int16_to_bytes_be(register_address)
                \o int16_to_bytes_be(register_count)
        header == MsgHeader(U32(0, config_id), msg_id, uid,
                            READ, 2, 0, Len(body))
        hb == to_bytes(header)
    IN  IF hb.ok THEN [ok |-> TRUE, bytes |-> hb.bytes \o body]
                 ELSE [ok |-> FALSE, bytes |-> <<>>]

-----------------------------------------------------------------------------
(* InverterState (battery.py): the view over a TelemetryData *)

battery_soc(telemetry) == telemetry.battery_soc

battery_import(telemetry) == Max(0, telemetry.battery_power)

(* battery_export without the sign flip *)
battery_export_same_sign(telemetry) == Max(0, telemetry.battery_power)

battery_export(telemetry) == Max(0, -telemetry.battery_power)

grid_import(telemetry) == Max(0, telemetry.grid_power)

grid_export(telemetry) == Max(0, -telemetry.grid_power)

battery_active(telemetry) == telemetry.battery_power # 0

(* const.SYSTEM_RUN_MODES *)
SYSTEM_RUN_MODES ==
    (1 :> "Regular Mode") @@ (2 :> "Emergency Mode")
    @@ (3 :> "Electricity Sell Mode") @@ (5 :> "Battery Energy Management")

(* A label: a text and the numbers formatted into it.  f"Unknown ({c})" *)
(* is the text "Unknown" with c embedded.                               *)
Label(text, embeds) == [text |-> text, embeds |-> embeds]

(* a label for unmapped codes that leaves the code out *)
system_run_mode_text_bare(telemetry) ==
    IF telemetry.system_run_mode \in DOMAIN SYSTEM_RUN_MODES
    THEN Label(SYSTEM_RUN_MODES[telemetry.system_run_mode], <<>>)
    ELSE Label("Unknown", <<>>)

(* InverterState.system_run_mode_text *)
system_run_mode_text(telemetry) ==
    IF telemetry.system_run_mode \in DOMAIN SYSTEM_RUN_MODES
    THEN Label(SYSTEM_RUN_MODES[telemetry.system_run_mode], <<>>)
    ELSE Label("Unknown", <<telemetry.system_run_mode>>)

(* batteryLine with the two directions exchanged *)
batteryLine_exchanged(telemetry) ==
    IF telemetry.battery_power > 0 THEN 1
    ELSE IF telemetry.battery_power < 0 THEN 2
    ELSE 0

(* 0 = inactive, 1 = discharging, 2 = charging *)
batteryLine(telemetry) ==
    IF telemetry.battery_power > 0 THEN 2
    ELSE IF telemetry.battery_power < 0 THEN 1
    ELSE 0

-----------------------------------------------------------------------------
(* Inbound frames used as inputs: the wire layout read by from_bytes and   *)
(* parse_params_list, filled with sample register words                    *)

MaxSegments == 2

SegIdSamples == {4, 5, 99}

PowerWords == {0, 1, 32768, 65535}

TotalSocWords == {0, 100, 101, 150}

SocWords == {50, 150}

RegisterSamples ==
    [bp : PowerWords, tsoc : TotalSocWords, soc : SocWords, ct1 : PowerWords]

FixedRegisters == [bp |-> 65535, tsoc |-> 150, soc |-> 50, ct1 |-> 1]

(* the register words of one sample segment *)
SegWords(id, v) ==
    CASE id = 4 -> <<1, 480, 25, v.bp, v.tsoc, v.soc>>
      [] id = 5 -> <<1, 5000, 2300, 0, 3, v.ct1>>
      [] OTHER  -> <<v.bp, v.ct1>>

SegAddress(id) == IF id \in 1 .. 10 THEN id * 16 ELSE 9999

RECURSIVE WordBytes(_)
WordBytes(ws) ==
    IF ws = <<>> THEN <<>>
    ELSE int16_to_bytes_be(Head(ws)) \o WordBytes(Tail(ws))

EncodeSegment(id, v) ==
    WordBytes(<<id, 3, SegAddress(id), Len(SegWords(id, v))>>)
    \o WordBytes(SegWords(id, v))

RECURSIVE EncodeSegments(_, _)
EncodeSegments(ids, v) ==
    IF ids = <<>> THEN <<>>
    ELSE EncodeSegment(Head(ids), v) \o EncodeSegments(Tail(ids), v)

EncodePayload(ids, v) == int16_to_bytes_be(Len(ids)) \o EncodeSegments(ids, v)

SegIdSeqs == UNION { [1 .. n -> SegIdSamples] : n \in 0 .. MaxSegments }

Prefixes(s) == { SubSeq(s, 1, n) : n \in 0 .. Len(s) }

(* well-formed payloads, and every prefix of one: a payload cut anywhere *)
PayloadSamples ==
    UNION { Prefixes(EncodePayload(ids, FixedRegisters)) : ids \in SegIdSeqs }

FrameHeaderBytes(data_length) ==
    <<0, 0, 0, 0,  0, 0, 0, 7,  0, 0, 0, 0, 0, 1, 226, 64,  131, 32, 0,  0, 0, 0>>
    \o int16_to_bytes_be(data_length)

(* the data_length a sender may announce for a payload of n bytes *)
AnnouncedLengths(n) == {n, n + 5} \cup (IF n >= 3 THEN {n - 3} ELSE {})

FullFrames ==
    { FrameHeaderBytes(Len(EncodePayload(ids, v))) \o EncodePayload(ids, v) :
        ids \in SegIdSeqs, v \in RegisterSamples }

CutFrames ==
    UNION { Prefixes(FrameHeaderBytes(dl) \o EncodePayload(ids, FixedRegisters)) :
              ids \in SegIdSeqs,
              dl \in UNION { AnnouncedLengths(Len(EncodePayload(i, FixedRegisters))) :
                               i \in SegIdSeqs } }

(* payloads whose counts and lengths lie: a segment count of 65535 with one *)
(* segment behind it, a params_num of 65535 with two registers behind it,   *)
(* a known segment one register long, registers at address 65535           *)
HostilePayloads ==
    { WordBytes(<<65535,  4, 3, 64, 2,  1, 480>>),
      WordBytes(<<1,  5, 3, 80, 65535,  1, 5000>>),
      WordBytes(<<2,  9, 3, 144, 1,  7,  99, 3, 65535, 2,  32768, 65535>>),
      WordBytes(<<0,  4, 3, 64, 1,  9>>) }

HostileFrames ==
    { FrameHeaderBytes(dl) \o p : p \in HostilePayloads, dl \in {65535, 14} }

FrameSamples ==
    {NoneBuf} \cup { Buf(f) : f \in FullFrames \cup CutFrames \cup HostileFrames }

-----------------------------------------------------------------------------
(* Header round trip: to_bytes, then from_bytes on its result *)

U32Samples ==
    { U32(0, 0), U32(0, 1), U32(0, 65535), U32(1, 0),
      U32(32767, 65535), U32(32768, 0), U32(65535, 65535) }

UserIdSamples == { Zeros(8), <<0, 0, 0, 0, 0, 1, 226, 64>>, <<255, 1, 2, 3, 4, 5, 6, 128>> }

FunCodeSamples == {0, 3, 6, 16, 131, 255}

SourceIdSamples == {0, 1, 2, 15, 16, 255}

PageIndexSamples == {0, 3, 255}

DataLengthSamples == {0, 4, 255, 256, 65535}

HeaderSamples ==
    { MsgHeader(c, m, u, f, s, p, d) :
        c \in U32Samples, m \in {U32(0, 1), U32(32768, 0)}, u \in UserIdSamples,
        f \in FunCodeSamples, s \in SourceIdSamples, p \in PageIndexSamples,
        d \in DataLengthSamples }

NotYet == [done |-> FALSE, ok |-> FALSE, bytes |-> <<>>]

HdrIdle ==
    /\ h = DefaultHeader
    /\ ser = NotYet
    /\ back = [done |-> FALSE, res |-> NoHeader]

InitHeader ==
    /\ h \in HeaderSamples
    /\ ser = NotYet
    /\ back = [done |-> FALSE, res |-> NoHeader]

Serialize ==
    /\ ~ser.done
    /\ ser' = [done |-> TRUE, ok |-> to_bytes(h).ok, bytes |-> to_bytes(h).bytes]
    /\ UNCHANGED <<h, back>>
    /\ UNCHANGED notHdr

Reparse ==
    /\ ser.done /\ ser.ok
    /\ ~back.done
    /\ back' = [done |-> TRUE, res |-> from_bytes(Buf(ser.bytes))]
    /\ UNCHANGED <<h, ser>>
    /\ UNCHANGED notHdr

-----------------------------------------------------------------------------
(* Payload decode: parse_params_list on one payload *)

SegIdle ==
    /\ seg_input = <<>>
    /\ plist = [done |-> FALSE, res |-> ParamsListBean(0, <<>>)]

InitSegments ==
    /\ seg_input \in PayloadSamples
    /\ plist = [done |-> FALSE, res |-> ParamsListBean(0, <<>>)]

ParseParamsList ==
    /\ ~plist.done
    /\ plist' = [done |-> TRUE, res |-> parse_params_list(seg_input)]
    /\ UNCHANGED seg_input
    /\ UNCHANGED notSeg

-----------------------------------------------------------------------------
(* Frame decode: MsgHeader.from_bytes and parse_message on one buffer *)

MsgIdle ==
    /\ frame = NoneBuf
    /\ hres = [done |-> FALSE, res |-> NoHeader]
    /\ tres = [done |-> FALSE, res |-> NoTelemetry]

InitMessage ==
    /\ frame \in FrameSamples
    /\ hres = [done |-> FALSE, res |-> NoHeader]
    /\ tres = [done |-> FALSE, res |-> NoTelemetry]

FromBytes ==
    /\ ~hres.done
    /\ hres' = [done |-> TRUE, res |-> from_bytes(frame)]
    /\ UNCHANGED <<frame, tres>>
    /\ UNCHANGED notMsg

ParseMessage ==
    /\ ~tres.done
    /\ tres' = [done |-> TRUE, res |-> parse_message(frame)]
    /\ UNCHANGED <<frame, hres>>
    /\ UNCHANGED notMsg


-----------------------------------------------------------------------------
(* Command builder: calls on one ESYCommandBuilder instance *)

MaxCalls == 3

AddressSamples == {57, 65535}

ValueSamples == {5, 65541}

ConfigIdSamples == {0, 6}

(* the page a caller wants the frame to address; build_write_command and *)
(* build_read_command take no such argument                              *)
WantedPageSamples == {0, 3}

(* the caller of the builder is the app: source 2 *)
APP_SOURCE == 2

Request(kind, a, v, c, p) ==
    [kind |-> kind, register_address |-> a, value |-> v, config_id |-> c,
     page_index |-> p, source_id |-> APP_SOURCE]

NoRequest == Request("none", 0, 0, 0, 0)

(* 2^31 - 3: the counter value a long run of calls is followed up to *)
NearWrap == U32(32767, 65533)

CmdIdle ==
    /\ msg_id_counter = U32Zero
    /\ user_id_bytes = Zeros(8)
    /\ cmd_last = NotYet
    /\ cmd_prev = NotYet
    /\ cmd_req = NoRequest

InitBuilder ==
    /\ msg_id_counter = U32Zero
    /\ user_id_bytes \in { Zeros(8), <<0, 0, 0, 0, 0, 1, 226, 64>> }
    /\ cmd_last = NotYet
    /\ cmd_prev = NotYet
    /\ cmd_req = NoRequest

(* the calls followed one by one: the first MaxCalls, and those around 2^31 *)
Followed ==
    \/ msg_id_counter.hi = 0 /\ msg_id_counter.lo < MaxCalls
    \/ msg_id_counter.hi >= 32767 /\ Less(msg_id_counter, U32(32768, 1))

Returned(r) == [done |-> TRUE, ok |-> r.ok, bytes |-> r.bytes]

BuildWriteCommand ==
    /\ Followed
    /\ \E a \in AddressSamples, v \in ValueSamples, c \in ConfigIdSamples,
          p \in WantedPageSamples :
         LET id == get_next_msg_id(msg_id_counter)
         IN  /\ msg_id_counter' = id
             /\ cmd_last' = Returned(build_write_command(user_id_bytes, id, a, v, c))
             /\ cmd_prev' = cmd_last
             /\ cmd_req' = Request("write", a, v, c, p)
    /\ UNCHANGED user_id_bytes
    /\ UNCHANGED notCmd

BuildReadCommand ==
    /\ Followed
    /\ \E a \in AddressSamples, n \in {1, 125}, c \in ConfigIdSamples :
         LET id == get_next_msg_id(msg_id_counter)
         IN  /\ msg_id_counter' = id
             /\ cmd_last' = Returned(build_read_command(user_id_bytes, id, a, n, c))
             /\ cmd_prev' = cmd_last
             /\ cmd_req' = Request("read", a, n, c, 0)
    /\ UNCHANGED user_id_bytes
    /\ UNCHANGED notCmd

(* A run of build_write_command(57, 5) calls that takes the counter from a *)
(* small value to NearWrap; every call of the run draws a msg_id below     *)
(* 2^31.  The last two frames of the run are kept.                         *)
BuildManyCommands ==
    /\ msg_id_counter.hi = 0
    /\ msg_id_counter' = NearWrap
    /\ cmd_last' = Returned(build_write_command(user_id_bytes, NearWrap, 57, 5, 0))
    /\ cmd_prev' = Returned(build_write_command(user_id_bytes,
                                  U32(NearWrap.hi, NearWrap.lo - 1), 57, 5, 0))
    /\ cmd_req' = Request("write", 57, 5, 0, 0)
    /\ UNCHANGED user_id_bytes
    /\ UNCHANGED notCmd

-----------------------------------------------------------------------------
(* Two parse_message calls interleaved on one ESYTelemetryParser, whose    *)
(* payload_parser (one PayloadParser, made in __init__) they share.  Each  *)
(* action is one statement of parse_params_list.                           *)

Callers == {1, 2}

ConFrameOf(ids) ==
    FrameHeaderBytes(Len(EncodePayload(ids, FixedRegisters)))
    \o EncodePayload(ids, FixedRegisters)

ConFrameSamples == { ConFrameOf(<<99>>), ConFrameOf(<<>>) }

NewSegment == ParamSegment(0, 0, 0, 0, <<>>)

CallerInit(f) ==
    [frame |-> f, pc |-> "call", data |-> <<>>, count |-> 0, left |-> 0,
     seg |-> NewSegment, segments |-> <<>>, result |-> NoTelemetry]

ConIdle ==
    /\ pp_data = <<>>
    /\ pp_position = 0
    /\ callers = [c \in Callers |-> CallerInit(<<>>)]

InitConcurrent ==
    /\ pp_data = <<>>
    /\ pp_position = 0
    /\ callers \in { [c \in Callers |-> CallerInit(fs[c])] :
                       fs \in [Callers -> ConFrameSamples] }

Set(c, r) == callers' = [callers EXCEPT ![c] = r]

(* parse_message up to the call of parse_params_list, and the test *)
(* `if not data` that opens it                                     *)
EnterParse(c) ==
    LET me == callers[c]
        header == from_bytes(Buf(Slice(me.frame, 0, HEADER_SIZE)))
    IN  /\ me.pc = "call"
        /\ IF Len(me.frame) < HEADER_SIZE \/ ~header.some
           THEN Set(c, [me EXCEPT !.pc = "done", !.result = NoTelemetry])
           ELSE LET data == message_data(me.frame, header.val)
                IN  IF Len(data) = 0
                    THEN Set(c, [me EXCEPT !.pc = "build", !.data = data])
                    ELSE Set(c, [me EXCEPT !.pc = "set_data", !.data = data])
        /\ UNCHANGED <<pp_data, pp_position>>
        /\ UNCHANGED notCon

(* self.data = data *)
SetData(c) ==
    LET me == callers[c]
    IN  /\ me.pc = "set_data"
        /\ pp_data' = me.data
        /\ Set(c, [me EXCEPT !.pc = "set_position"])
        /\ UNCHANGED pp_position
        /\ UNCHANGED notCon

(* self.position = 0 *)
SetPosition(c) ==
    LET me == callers[c]
    IN  /\ me.pc = "set_position"
        /\ pp_position' = 0
        /\ Set(c, [me EXCEPT !.pc = "read_count"])
        /\ UNCHANGED pp_data
        /\ UNCHANGED notCon

(* result.segment_count = self._read_uint16() *)
ReadCount(c) ==
    LET me == callers[c]
        r == read_uint16(pp_data, pp_position)
    IN  /\ me.pc = "read_count"
        /\ pp_position' = r.position
        /\ Set(c, [me EXCEPT !.pc = "loop", !.count = r.value, !.left = r.value])
        /\ UNCHANGED pp_data
        /\ UNCHANGED notCon

(* for seg_idx in range(...): if self.position + 8 > len(self.data): break *)
LoopTest(c) ==
    LET me == callers[c]
    IN  /\ me.pc = "loop"
        /\ IF me.left = 0 \/ pp_position + 8 > Len(pp_data)
           THEN Set(c, [me EXCEPT !.pc = "build"])
           ELSE Set(c, [me EXCEPT !.pc = "read_id", !.seg = NewSegment])
        /\ UNCHANGED <<pp_data, pp_position>>
        /\ UNCHANGED notCon

(* segment.<field> = self._read_uint16(), for the four sub-header fields *)
ReadField(c) ==
    LET me == callers[c]
        r == read_uint16(pp_data, pp_position)
    IN  /\ me.pc \in {"read_id", "read_type", "read_address", "read_num"}
        /\ pp_position' = r.position
        /\ Set(c, CASE me.pc = "read_id" ->
                       [me EXCEPT !.pc = "read_type", !.seg.segment_id = r.value]
                    [] me.pc = "read_type" ->
                       [me EXCEPT !.pc = "read_address", !.seg.segment_type = r.value]
                    [] me.pc = "read_address" ->
                       [me EXCEPT !.pc = "read_num", !.seg.segment_address = r.value]
                    [] OTHER ->
                       [me EXCEPT !.pc = "values", !.seg.params_num = r.value])
        /\ UNCHANGED pp_data
        /\ UNCHANGED notCon

(* value_bytes = params_num * 2 and the slice of the value bytes *)
ReadValues(c) ==
    LET me == callers[c]
        value_bytes == me.seg.params_num * 2
    IN  /\ me.pc = "values"
        /\ IF pp_position + value_bytes <= Len(pp_data)
           THEN /\ Set(c, [me EXCEPT !.pc = "append",
                             !.seg.values = Slice(pp_data, pp_position,
                                                  pp_position + value_bytes)])
                /\ pp_position' = pp_position + value_bytes
           ELSE /\ Set(c, [me EXCEPT !.pc = "append"])
                /\ UNCHANGED pp_position
        /\ UNCHANGED pp_data
        /\ UNCHANGED notCon

(* result.segments.append(segment) *)
AppendSegment(c) ==
    LET me == callers[c]
    IN  /\ me.pc = "append"
        /\ Set(c, [me EXCEPT !.pc = "loop", !.left = me.left - 1,
                            !.segments = Append(me.segments, me.seg)])
        /\ UNCHANGED <<pp_data, pp_position>>
        /\ UNCHANGED notCon

(* return result; then _build_telemetry_data(params) in parse_message *)
BuildResult(c) ==
    LET me == callers[c]
    IN  /\ me.pc = "build"
        /\ Set(c, [me EXCEPT !.pc = "done",
                     !.result = [some |-> TRUE, raised |-> FALSE,
                                 val |-> build_telemetry_data(
                                           ParamsListBean(me.count, me.segments))]])
        /\ UNCHANGED <<pp_data, pp_position>>
        /\ UNCHANGED notCon

-----------------------------------------------------------------------------
(* Protocol hot swap (coordinator.py).  The parser the coordinator holds   *)
(* (create_parser, set_protocol, its parse_message) is the dynamic parser, *)
(* which is not part of the sources: it is modelled from the               *)
(* specification: a register catalog behind one reference, replaced as a   *)
(* whole, which a decode reads once when it starts.                        *)

(* A protocol definition: register address -> semantic key *)
ProtoNone == <<>>

ProtoA == (0 :> "pvPower") @@ (1 :> "batteryPower") @@ (2 :> "batterySoc")

ProtoB == (0 :> "gridPower") @@ (1 :> "loadPower") @@ (2 :> "batterySoc")

ProtocolSamples == {ProtoNone, ProtoA, ProtoB}

(* RegisterCatalog.lookup: the key of a register, or the debug key *)
lookup(catalog, address) ==
    IF address \in DOMAIN catalog THEN <<catalog[address], 0>> ELSE <<"reg", address>>

(* the registers of one segment, resolved through one catalog *)
resolve_segment(catalog, segment, snapshot) ==
    LET n == Min(segment.params_num, Len(segment.values) \div 2)
        new == [k \in { lookup(catalog, segment.segment_address + i) : i \in 0 .. n - 1 } |->
                  LET i == CHOOSE j \in 0 .. n - 1 :
                             /\ lookup(catalog, segment.segment_address + j) = k
                             /\ \A j2 \in 0 .. n - 1 :
                                  lookup(catalog, segment.segment_address + j2) = k
                                  => j2 <= j
                  IN  bytes_to_int16_be(segment.values[2 * i + 1],
                                        segment.values[2 * i + 2])]
    IN  new @@ snapshot

RECURSIVE resolve_segments(_, _, _, _)
resolve_segments(catalog, segments, n, snapshot) ==
    IF n = 0
    THEN snapshot
    ELSE resolve_segment(catalog, segments[n],
                         resolve_segments(catalog, segments, n - 1, snapshot))

(* parser.set_protocol(protocol): the reference the parser holds afterwards *)
set_protocol(new_definition) == new_definition

(* update_protocol that stores the definition and leaves the parser alone *)
update_protocol_keeps_parser(new_definition) ==
    [protocol |-> new_definition, parser_protocol |-> parser_protocol]

(* ESYSunhomeCoordinator.update_protocol: the two fields after the call *)
update_protocol(new_definition) ==
    [protocol |-> new_definition, parser_protocol |-> set_protocol(new_definition)]

SwapSegmentA == ParamSegment(0, 3, 0, 2, WordBytes(<<500, 65535>>))

SwapSegmentB == ParamSegment(1, 3, 2, 2, WordBytes(<<80, 7>>))

SwapFrameSamples ==
    { <<>>, <<SwapSegmentA>>, <<SwapSegmentB>>,
      <<SwapSegmentA, SwapSegmentB>>, <<SwapSegmentB, SwapSegmentA>> }

DecIdle ==
    [pc |-> "idle", catalog |-> ProtoNone, called_with |-> ProtoNone,
     segments |-> <<>>, i |-> 1, snapshot |-> <<>>]

SwapIdle ==
    /\ protocol = ProtoNone
    /\ parser_protocol = ProtoNone
    /\ dec = DecIdle
    /\ last_data = <<>>

(* ESYSunhomeCoordinator.__init__: self.protocol = protocol and *)
(* self.parser = create_parser(protocol)                         *)
InitSwap ==
    /\ protocol \in ProtocolSamples
    /\ parser_protocol = protocol
    /\ dec = DecIdle
    /\ last_data = <<>>

UpdateProtocol ==
    /\ \E p \in ProtocolSamples :
         /\ p # protocol
         /\ protocol' = update_protocol(p).protocol
         /\ parser_protocol' = update_protocol(p).parser_protocol
    /\ UNCHANGED <<dec, last_data>>
    /\ UNCHANGED notSwap

(* _process_telemetry calls self.parser.parse_message(payload): the decode *)
(* takes the catalog reference the parser holds                            *)
DecodeBegin ==
    /\ dec.pc \in {"idle", "done"}
    /\ \E f \in SwapFrameSamples :
         dec' = [pc |-> "segments", catalog |-> parser_protocol,
                 called_with |-> protocol, segments |-> f, i |-> 1,
                 snapshot |-> <<>>]
    /\ UNCHANGED <<protocol, parser_protocol, last_data>>
    /\ UNCHANGED notSwap

(* the decode resolves its next segment *)
DecodeSegment ==
    /\ dec.pc = "segments"
    /\ dec.i <= Len(dec.segments)
    /\ dec' = [dec EXCEPT !.i = dec.i + 1,
                 !.snapshot = resolve_segment(dec.catalog, dec.segments[dec.i],
                                              dec.snapshot)]
    /\ UNCHANGED <<protocol, parser_protocol, last_data>>
    /\ UNCHANGED notSwap

(* parse_message returns; _process_telemetry: if data: self._last_data = data *)
DecodeEnd ==
    /\ dec.pc = "segments"
    /\ dec.i > Len(dec.segments)
    /\ dec' = [dec EXCEPT !.pc = "done"]
    /\ last_data' = IF DOMAIN dec.snapshot # {} THEN dec.snapshot ELSE last_data
    /\ UNCHANGED <<protocol, parser_protocol>>
    /\ UNCHANGED notSwap

-----------------------------------------------------------------------------
(* Frames for the derived fields: any of the PV, battery, grid, energy   *)
(* flow and load segments (ids 3, 4, 5, 7, 8), each at most once, filled *)
(* with sample powers; 65436, 65486 and 65136 are -100, -50 and -400 as   *)
(* signed words, 65535 is -1; the battery word is also the battery       *)
(* current, a signed register with coefficient 0.1                       *)

DerivedSegIds == {3, 4, 5, 7, 8}

DerivedRegisters ==
    [pv1 : {0, 300}, pv2 : {200}, pvtot : {0, 450},
     bp : {0, 100, 65436, 65535}, ct1 : {0, 50, 65486}, load : {400, 65136}]

DerivedSegWords(id, v) ==
    CASE id = 3 -> <<3000, 10, v.pv1, 3000, 7, v.pv2>>
      [] id = 4 -> <<1, 480, v.bp, v.bp, 80, 80>>
      [] id = 5 -> <<1, 5000, 2300, v.ct1, 3, v.ct1>>
      [] id = 7 -> <<v.pvtot, v.bp, v.ct1, v.load>>
      [] OTHER  -> <<2300, 17, v.load, v.load>>

RECURSIVE DerivedEncode(_, _)
DerivedEncode(ids, v) ==
    IF ids = {} THEN <<>>
    ELSE LET id == CHOOSE x \in ids : \A y \in ids : x <= y
         IN  WordBytes(<<id, 3, SegAddress(id), Len(DerivedSegWords(id, v))>>)
             \o WordBytes(DerivedSegWords(id, v))
             \o DerivedEncode(ids \ {id}, v)

DerivedPayload(ids, v) == int16_to_bytes_be(Cardinality(ids)) \o DerivedEncode(ids, v)

DerivedFrameSamples ==
    { Buf(FrameHeaderBytes(Len(DerivedPayload(ids, v))) \o DerivedPayload(ids, v)) :
        ids \in SUBSET DerivedSegIds, v \in DerivedRegisters }

InitDerived ==
    /\ frame \in DerivedFrameSamples
    /\ hres = [done |-> FALSE, res |-> NoHeader]
    /\ tres = [done |-> FALSE, res |-> NoTelemetry]

-----------------------------------------------------------------------------
(* One ESYTelemetryParser fed frame after frame: the PayloadParser made in *)
(* __init__ keeps data and position from one parse_message call to the    *)
(* next.                                                                  *)

MaxFrames == 3

SeqFrameSamples ==
    { Buf(ConFrameOf(<<4>>)),
      Buf(ConFrameOf(<<99, 5>>)),
      Buf(ConFrameOf(<<>>)),
      Buf(SubSeq(ConFrameOf(<<5, 4>>), 1, 47)),
      Buf(SubSeq(ConFrameOf(<<4>>), 1, 10)),
      Buf(FrameHeaderBytes(0)),
      NoneBuf }

(* The for loop of parse_params_list on the parser's own fields: the *)
(* segments and self.position when the loop ends                      *)
RECURSIVE segment_loop_on(_, _, _, _)
segment_loop_on(data, position, left, segments) ==
    IF left = 0 \/ position + 8 > Len(data)
    THEN [segments |-> segments, position |-> position]
    ELSE LET r == read_segment(data, position)
         IN  segment_loop_on(data, r.position, left - 1, Append(segments, r.segment))

(* parse_params_list that leaves self.position where the last call ended *)
parse_params_list_keeps_cursor(parser, data) ==
    IF Len(data) = 0
    THEN [bean |-> ParamsListBean(0, <<>>), data |-> parser.data,
          position |-> parser.position]
    ELSE LET c == read_uint16(data, parser.position)
             l == segment_loop_on(data, c.position, c.value, <<>>)
         IN  [bean |-> ParamsListBean(c.value, l.segments), data |-> data,
              position |-> l.position]

(* PayloadParser.parse_params_list on a parser with fields data, position: *)
(* the bean returned and the fields afterwards                             *)
parse_params_list_on(parser, data) ==
    IF Len(data) = 0
    THEN [bean |-> ParamsListBean(0, <<>>), data |-> parser.data,
          position |-> parser.position]
    ELSE LET c == read_uint16(data, 0)
             l == segment_loop_on(data, c.position, c.value, <<>>)
         IN  [bean |-> ParamsListBean(c.value, l.segments), data |-> data,
              position |-> l.position]

(* ESYTelemetryParser.parse_message on a parser whose payload_parser has *)
(* the given fields: the result and the fields afterwards                *)
parse_message_on(parser, payload) ==
    IF payload.isNone \/ Len(payload.bytes) < HEADER_SIZE
    THEN [result |-> NoTelemetry, data |-> parser.data, position |-> parser.position]
    ELSE LET header == from_bytes(Buf(Slice(payload.bytes, 0, HEADER_SIZE)))
             p == parse_params_list_on(parser, message_data(payload.bytes, header.val))
         IN  [result |-> [some |-> TRUE, raised |-> FALSE,
                          val |-> build_telemetry_data(p.bean)],
              data |-> p.data, position |-> p.position]

SeqIdle ==
    /\ sq_data = <<>>
    /\ sq_position = 0
    /\ sq = [n |-> 0, frame |-> NoneBuf, earlier |-> <<>>, result |-> NoTelemetry]

(* ESYTelemetryParser.__init__: PayloadParser() with position 0, data b'' *)
InitSequence == SeqIdle

ParseNext ==
    /\ sq.n < MaxFrames
    /\ \E f \in SeqFrameSamples :
         LET r == parse_message_on([data |-> sq_data, position |-> sq_position], f)
         IN  /\ sq_data' = r.data
             /\ sq_position' = r.position
             /\ sq' = [n |-> sq.n + 1, frame |-> f,
                       earlier |-> IF sq.n = 0 THEN <<>> ELSE <<sq.frame>>,
                       result |-> r.result]
    /\ UNCHANGED notSeq

-----------------------------------------------------------------------------
(* bytes_to_int16_be on every pair of bytes *)

WordIdle == w16 = [b0 |-> 0, b1 |-> 0, done |-> FALSE, res |-> 0]

InitWord == w16 \in [b0 : Byte, b1 : Byte, done : {FALSE}, res : {0}]

ToInt16 ==
    /\ ~w16.done
    /\ w16' = [w16 EXCEPT !.done = TRUE,
                          !.res = bytes_to_int16_be(w16.b0, w16.b1)]
    /\ UNCHANGED notWord

-----------------------------------------------------------------------------
(* system_run_mode_text on every code the unsigned systemRunMode register *)
(* can hold                                                               *)

ModeIdle == mode = [code |-> 0, done |-> FALSE, label |-> Label("", <<>>)]

InitMode ==
    mode \in [code : 0 .. 65535, done : {FALSE}, label : {Label("", <<>>)}]

ModeText ==
    /\ ~mode.done
    /\ mode' = [mode EXCEPT
                  !.done = TRUE,
                  !.label = system_run_mode_text(
                               [TelemetryData EXCEPT !.system_run_mode = mode.code])]
    /\ UNCHANGED notMode

-----------------------------------------------------------------------------
(* user_id_to_bytes on strings of digits and other characters *)

MaxShortLen == 3

UidChars == {0, 2, 5, 9, 10}

(* 2^64 - 1, 2^64 + 5, 2^128 - 1 and 2^128 in decimal *)
LongUidSamples ==
    { <<1, 8, 4, 4, 6, 7, 4, 4, 0, 7, 3, 7, 0, 9, 5, 5, 1, 6, 1, 5>>,
      <<1, 8, 4, 4, 6, 7, 4, 4, 0, 7, 3, 7, 0, 9, 5, 5, 1, 6, 2, 1>>,
      <<3, 4, 0, 2, 8, 2, 3, 6, 6, 9, 2, 0, 9, 3, 8, 4, 6, 3, 4, 6, 3,
        3, 7, 4, 6, 0, 7, 4, 3, 1, 7, 6, 8, 2, 1, 1, 4, 5, 5>>,
      <<3, 4, 0, 2, 8, 2, 3, 6, 6, 9, 2, 0, 9, 3, 8, 4, 6, 3, 4, 6, 3,
        3, 7, 4, 6, 0, 7, 4, 3, 1, 7, 6, 8, 2, 1, 1, 4, 5, 6>> }

UidSamples ==
    UNION { [1 .. n -> UidChars] : n \in 0 .. MaxShortLen } \cup LongUidSamples

UidIdle ==
    uid_call = [chars |-> <<>>, done |-> FALSE, ok |-> FALSE, bytes |-> <<>>]

InitUid ==
    uid_call \in [chars : UidSamples, done : {FALSE}, ok : {FALSE}, bytes : {<<>>}]

UserIdToBytes ==
    /\ ~uid_call.done
    /\ LET r == user_id_to_bytes(uid_call.chars)
       IN  uid_call' = [uid_call EXCEPT !.done = TRUE, !.ok = r.ok, !.bytes = r.bytes]
    /\ UNCHANGED notUid

-----------------------------------------------------------------------------
(* REST CLIENT (esysunhome.py)                                             *)
(*                                                                         *)
(* The coroutines of ESYSunhomeAPI call one another, so the client is a    *)
(* stack of activations; one step runs the top activation to its next      *)
(* await of a callee, or to its return or raise.  The server answers each  *)
(* request with one of a few statuses.                                     *)

MaxDepth == 8      \* deepest stack of activations; a deeper call raises RecursionError
MaxTokens == 3     \* logins and refreshes the server accepts
MaxApiCalls == 2   \* calls made on one client

NoExc == [type |-> "", info |-> 0]
Exc(type, info) == [type |-> type, info |-> info]
NoRet == [kind |-> "none", status |-> 0, exc |-> NoExc]
Value(status) == [kind |-> "value", status |-> status, exc |-> NoExc]
Raise(e) == [kind |-> "raise", status |-> 0, exc |-> e]

(* one activation; the fields an activation does not use keep these values *)
Activation(fn) ==
    [fn |-> fn, pc |-> "start", func |-> "", max_retries |-> 0,
     initial_delay |-> 0, backoff_factor |-> 10, delay |-> 0, attempt |-> 0,
     events |-> <<>>, url |-> "", retry_auth |-> TRUE, sends |-> <<>>]

NoActivation == Activation("")

(* the decorated methods: delays in milliseconds, factors in tenths *)
RetryOf(func) ==
    [Activation("retry") EXCEPT
        !.func = func,
        !.max_retries = IF func = "set_mode" THEN 3 ELSE 2,
        !.initial_delay = IF func \in {"request_update", "set_mode"} THEN 2000 ELSE 1000,
        !.delay = IF func \in {"request_update", "set_mode"} THEN 2000 ELSE 1000,
        !.backoff_factor = IF func = "set_mode" THEN 15 ELSE 20]

RequestOf(url, retry_auth) ==
    [Activation("_make_request_with_auth") EXCEPT !.url = url, !.retry_auth = retry_auth]

(* __init__: no tokens; the device id is given or empty *)
NewApi(device_id) ==
    [access_token |-> 0, refresh_token |-> FALSE, token_expiry |-> "none",
     device_id |-> device_id, issued |-> 0]

NoTop ==
    [op |-> "", running |-> FALSE, calls |-> 0, device_was_empty |-> FALSE,
     faulted |-> FALSE, device_get |-> FALSE]

TopFrame == api_stack[Len(api_stack)]
Callers_ == SubSeq(api_stack, 1, Len(api_stack) - 1)

(* awaiting a callee: the caller waits under it, or the call is one too deep *)
Enter(rest, caller, callee) ==
    IF Len(rest) + 2 > MaxDepth
    THEN [stack |-> Append(rest, caller),
          ret |-> Raise(Exc("RecursionError", 0)), fin |-> api_finished]
    ELSE [stack |-> rest \o <<caller, callee>>, ret |-> NoRet, fin |-> api_finished]

(* return or raise: the activation is gone and its caller sees the outcome *)
Leave(rest, ended, outcome) ==
    [stack |-> rest, ret |-> outcome, fin |-> [frame |-> ended, ret |-> outcome]]

Effect(e, a, t) ==
    /\ api_stack' = e.stack
    /\ api_ret' = e.ret
    /\ api_finished' = e.fin
    /\ api' = a
    /\ api_top' = [t EXCEPT !.running = (e.stack # <<>>)]

At(fn, pc) ==
    /\ api_stack # <<>>
    /\ TopFrame.fn = fn
    /\ TopFrame.pc = pc

(* is_token_expired *)
is_token_expired(a) == a.token_expiry # "future"

(* the tokens of a 200 answer of the login or the refresh endpoint; an     *)
(* expires_in of 60 seconds or less is inside the buffer at once          *)
with_tokens(a, expiry) ==
    [a EXCEPT !.access_token = a.issued + 1, !.refresh_token = TRUE,
              !.token_expiry = expiry, !.issued = a.issued + 1]

(* get_bearer_token from the device test on *)
device_check(rest, f, a) ==
    IF ~a.device_id
    THEN Enter(rest, [f EXCEPT !.pc = "after_fetch"], RetryOf("fetch_device"))
    ELSE Leave(rest, f, Value(0))

to_authenticate(rest, f) ==
    Enter(rest, [f EXCEPT !.pc = "after_auth"], RetryOf("authenticate"))

(* get_bearer_token up to its first await of authenticate or fetch_device; *)
(* refresh_access_token awaits no coroutine of the client and is part of   *)
(* the step                                                                *)
GetBearerToken ==
    /\ At("get_bearer_token", "start")
    /\ LET f == TopFrame
           rest == Callers_
       IN  IF is_token_expired(api)
           THEN IF ~api.refresh_token
                THEN Effect(to_authenticate(rest, f), api, api_top)
                ELSE \/ \E expiry \in {"past", "future"} :
                            /\ api.issued < MaxTokens
                            /\ Effect(device_check(rest, f, with_tokens(api, expiry)),
                                      with_tokens(api, expiry), api_top)
                     \/ Effect(to_authenticate(rest, f), api,
                               [api_top EXCEPT !.faulted = TRUE])
           ELSE IF api.access_token = 0
           THEN Effect(to_authenticate(rest, f), api, api_top)
           ELSE Effect(device_check(rest, f, api), api, api_top)
    /\ UNCHANGED notApi

GetBearerTokenAfterAuth ==
    /\ At("get_bearer_token", "after_auth")
    /\ IF api_ret.kind = "raise"
       THEN Effect(Leave(Callers_, TopFrame, api_ret), api, api_top)
       ELSE Effect(device_check(Callers_, TopFrame, api), api, api_top)
    /\ UNCHANGED notApi

GetBearerTokenAfterFetch ==
    /\ At("get_bearer_token", "after_fetch")
    /\ Effect(Leave(Callers_, TopFrame,
                    IF api_ret.kind = "raise" THEN api_ret ELSE Value(0)),
              api, api_top)
    /\ UNCHANGED notApi

(* the wrapper of retry_with_backoff *)
Event(kind, ms, e) == [kind |-> kind, ms |-> ms, exc |-> e]

(* a wrapper that goes round once more than max_retries allows *)
may_retry_once_more(attempt, max_retries) == attempt <= max_retries

(* the wrapper sleeps and goes round again *)
may_retry(attempt, max_retries) == attempt < max_retries

next_delay(delay, backoff_factor) == (delay * backoff_factor) \div 10

last_exception(events) == events[Len(events)].exc

(* try: return await func(...) *)
RetryInvoke ==
    /\ At("retry", "start")
    /\ LET f == TopFrame
       IN  Effect(Enter(Callers_,
                        [f EXCEPT !.pc = "await",
                                  !.events = Append(@, Event("invoke", 0, NoExc))],
                        Activation(f.func)),
                  api, api_top)
    /\ UNCHANGED notApi

(* the awaited function returned or raised: return, sleep and go round, *)
(* or raise last_exception                                              *)
RetryAwait ==
    /\ At("retry", "await")
    /\ LET f == TopFrame
           caught == [f EXCEPT !.events = Append(@, Event("raised", 0, api_ret.exc))]
       IN  IF api_ret.kind = "value"
           THEN Effect(Leave(Callers_, f, api_ret), api, api_top)
           ELSE IF may_retry(f.attempt, f.max_retries)
           THEN /\ api_stack' =
                      Append(Callers_,
                             [caught EXCEPT
                                 !.pc = "start",
                                 !.events = Append(@, Event("sleep", f.delay, NoExc)),
                                 !.delay = next_delay(f.delay, f.backoff_factor),
                                 !.attempt = f.attempt + 1])
                /\ api_ret' = NoRet
                /\ UNCHANGED <<api, api_top, api_finished>>
           ELSE Effect(Leave(Callers_, caught, Raise(last_exception(caught.events))),
                       api, api_top)
    /\ UNCHANGED notApi

(* authenticate: the login POST and, on 200, the tokens and the device *)
Authenticate ==
    /\ At("authenticate", "start")
    /\ LET f == TopFrame
       IN  \/ \E expiry \in {"past", "future"} :
                  /\ api.issued < MaxTokens
                  /\ LET a == with_tokens(api, expiry)
                     IN  IF ~a.device_id
                         THEN Effect(Enter(Callers_, [f EXCEPT !.pc = "after_fetch"],
                                           RetryOf("fetch_device")), a, api_top)
                         ELSE Effect(Leave(Callers_, f, Value(0)), a, api_top)
           \/ Effect(Leave(Callers_, f, Raise(Exc("AuthenticationError", 401))),
                     api, [api_top EXCEPT !.faulted = TRUE])
    /\ UNCHANGED notApi

AuthenticateAfterFetch ==
    /\ At("authenticate", "after_fetch")
    /\ Effect(Leave(Callers_, TopFrame,
                    IF api_ret.kind = "raise" THEN api_ret ELSE Value(0)),
              api, api_top)
    /\ UNCHANGED notApi

(* fetch_device *)
FetchDevice ==
    /\ At("fetch_device", "start")
    /\ LET f == TopFrame
       IN  IF api.access_token = 0
           THEN Effect(Leave(Callers_, f, Raise(Exc("AuthenticationError", 0))),
                       api, api_top)
           ELSE Effect(Enter(Callers_, [f EXCEPT !.pc = "after_request"],
                             RequestOf("device", TRUE)), api, api_top)
    /\ UNCHANGED notApi

FetchDeviceAfterRequest ==
    /\ At("fetch_device", "after_request")
    /\ LET f == TopFrame
       IN  IF api_ret.kind = "raise"
           THEN Effect(Leave(Callers_, f, api_ret), api, api_top)
           ELSE IF api_ret.status = 200
           THEN \/ Effect(Leave(Callers_, f, Value(0)),
                          [api EXCEPT !.device_id = TRUE], api_top)
                \/ Effect(Leave(Callers_, f, Raise(Exc("Exception", 200))),
                          api, [api_top EXCEPT !.faulted = TRUE])
           ELSE Effect(Leave(Callers_, f, Raise(Exc("Exception", api_ret.status))),
                       api, api_top)
    /\ UNCHANGED notApi

(* _make_request_with_auth *)
StatusSamples == {200, 401, 500}

(* a 401 that leaves the token in place *)
clear_token_kept(a) == a

(* self.access_token = None *)
clear_token(a) == [a EXCEPT !.access_token = 0]

Sent(f, a, status) == [url |-> f.url, token |-> a.access_token, status |-> status]

MakeRequestWithAuth ==
    /\ At("_make_request_with_auth", "start")
    /\ Effect(Enter(Callers_, [TopFrame EXCEPT !.pc = "send"],
                    Activation("get_bearer_token")), api, api_top)
    /\ UNCHANGED notApi

(* the request and, on 401, the cleared token and the second *)
(* get_bearer_token                                           *)
MakeRequestSend ==
    /\ At("_make_request_with_auth", "send")
    /\ LET f == TopFrame
       IN  IF api_ret.kind = "raise"
           THEN Effect(Leave(Callers_, f, api_ret), api, api_top)
           ELSE \E status \in StatusSamples :
                   LET g == [f EXCEPT !.sends = Append(@, Sent(f, api, status))]
                       t == [api_top EXCEPT
                                !.faulted = @ \/ status # 200,
                                !.device_get = @ \/ f.url = "device"]
                   IN  IF status = 401 /\ f.retry_auth
                       THEN Effect(Enter(Callers_, [g EXCEPT !.pc = "resend"],
                                         Activation("get_bearer_token")),
                                   clear_token(api), t)
                       ELSE Effect(Leave(Callers_, g, Value(status)), api, t)
    /\ UNCHANGED notApi

(* the retried request; its status is returned whatever it is *)
MakeRequestResend ==
    /\ At("_make_request_with_auth", "resend")
    /\ LET f == TopFrame
       IN  IF api_ret.kind = "raise"
           THEN Effect(Leave(Callers_, f, api_ret), api, api_top)
           ELSE \E status \in StatusSamples :
                   LET g == [f EXCEPT !.sends = Append(@, Sent(f, api, status))]
                       t == [api_top EXCEPT !.faulted = @ \/ status # 200]
                   IN  Effect(Leave(Callers_, g, Value(status)), api, t)
    /\ UNCHANGED notApi

(* request_update *)
RequestUpdate ==
    /\ At("request_update", "start")
    /\ Effect(Enter(Callers_, [TopFrame EXCEPT !.pc = "after_request"],
                    RequestOf("obtain", TRUE)), api, api_top)
    /\ UNCHANGED notApi

RequestUpdateAfterRequest ==
    /\ At("request_update", "after_request")
    /\ LET f == TopFrame
       IN  IF api_ret.kind = "raise"
           THEN Effect(Leave(Callers_, f, api_ret), api, api_top)
           ELSE IF api_ret.status = 200
           THEN Effect(Leave(Callers_, f, Value(0)), api, api_top)
           ELSE Effect(Leave(Callers_, f, Raise(Exc("Exception", api_ret.status))),
                       api, api_top)
    /\ UNCHANGED notApi

(* set_mode *)
SetMode ==
    /\ At("set_mode", "start")
    /\ Effect(Enter(Callers_, [TopFrame EXCEPT !.pc = "after_request"],
                    RequestOf("mode", TRUE)), api, api_top)
    /\ UNCHANGED notApi

SetModeAfterRequest ==
    /\ At("set_mode", "after_request")
    /\ LET f == TopFrame
       IN  IF api_ret.kind = "raise"
           THEN Effect(Leave(Callers_, f, api_ret), api, api_top)
           ELSE IF api_ret.status = 200
           THEN \/ Effect(Leave(Callers_, f, Value(0)), api, api_top)
                \/ Effect(Leave(Callers_, f, Raise(Exc("Exception", 200))),
                          api, [api_top EXCEPT !.faulted = TRUE])
           ELSE Effect(Leave(Callers_, f, Raise(Exc("Exception", api_ret.status))),
                       api, api_top)
    /\ UNCHANGED notApi

(* a caller of the client: the config flow's get_bearer_token, the        *)
(* coordinator's request_update, the select entity's set_mode, and        *)
(* update_schedule's request                                              *)
EntrySamples ==
    {Activation("get_bearer_token"), RetryOf("request_update"), RetryOf("set_mode"),
     RequestOf("schedule", TRUE), RequestOf("schedule", FALSE)}

CallApi ==
    /\ api_stack = <<>>
    /\ api_top.calls < MaxApiCalls
    /\ \E entry \in EntrySamples :
          /\ api_stack' = <<entry>>
          /\ api_top' = [op |-> IF entry.fn = "retry" THEN entry.func ELSE entry.fn,
                         running |-> TRUE, calls |-> api_top.calls + 1,
                         device_was_empty |-> ~api.device_id,
                         faulted |-> FALSE, device_get |-> FALSE]
    /\ api_ret' = NoRet
    /\ UNCHANGED <<api, api_finished>>
    /\ UNCHANGED notApi

ApiIdle ==
    /\ api = NewApi(TRUE)
    /\ api_stack = <<>>
    /\ api_ret = NoRet
    /\ api_top = NoTop
    /\ api_finished = [frame |-> NoActivation, ret |-> NoRet]

InitApi ==
    /\ api \in {NewApi(TRUE), NewApi(FALSE)}
    /\ api_stack = <<>>
    /\ api_ret = NoRet
    /\ api_top = NoTop
    /\ api_finished = [frame |-> NoActivation, ret |-> NoRet]

-----------------------------------------------------------------------------
(* MQTT LISTENERS (coordinator.py, battery.py)                             *)
(*                                                                         *)
(* The coordinator's _mqtt_loop task and the battery's _listen task, each  *)
(* stepped from one await to the next; the broker and the REST server      *)
(* answer as they choose.  One of the two objects exists in a behaviour.   *)

MaxMessages == 2   \* messages the broker delivers
MaxPolls == 2      \* poll requests built (_poll_msg_id)

MQTT_RECONNECT_INTERVAL == 30
BATTERY_RECONNECT_DELAY == 5

Awaiting == {"connecting", "subscribing", "listening"}

(* ESYSunhomeCoordinator.__init__ *)
NewCoordinator ==
    [made |-> TRUE, mqtt_client |-> FALSE, mqtt_connected |-> FALSE,
     shutdown |-> FALSE, task |-> "none", must_cancel |-> FALSE, open |-> FALSE,
     sleep |-> 0, last_data |-> 0, poll_msg_id |-> 0, enable_polling |-> TRUE,
     arrived |-> <<>>, notified |-> <<>>]

NoCoordinator == [NewCoordinator EXCEPT !.made = FALSE]

NoUpdate ==
    [pc |-> "idle", enable_polling |-> FALSE, mqtt_connected |-> FALSE,
     publishes |-> 0, topic |-> "", rest |-> 0, failed |-> FALSE,
     raised |-> FALSE, returned |-> 0]

NoPublish == [done |-> FALSE, returned |-> FALSE, attempted |-> FALSE, open |-> FALSE]

(* while not self._shutdown *)
loop_continues_always(shutdown) == TRUE

loop_continues(shutdown) == ~shutdown

(* the top of the while loop of _mqtt_loop: another _connect_mqtt or the end *)
loop_top(c) ==
    IF loop_continues(c.shutdown)
    THEN [c EXCEPT !.task = "connecting", !.sleep = 0]
    ELSE [c EXCEPT !.task = "done", !.sleep = 0]

(* after _connect_mqtt came back or raised: the reconnect sleep, unless shut down *)
after_connect(c) ==
    IF ~c.shutdown
    THEN [c EXCEPT !.task = "sleeping", !.sleep = MQTT_RECONNECT_INTERVAL]
    ELSE loop_top(c)

(* except Exception: self._mqtt_connected = False *)
connection_error(c) == after_connect([c EXCEPT !.mqtt_connected = FALSE, !.open = FALSE])

(* the async with block is left without an exception *)
stream_over(c) == after_connect([c EXCEPT !.open = FALSE])

(* async_config_entry_first_refresh: the listener task is created *)
CoStartTask ==
    /\ co.made /\ co.task = "none"
    /\ co' = [co EXCEPT !.task = "ready"]
    /\ UNCHANGED <<upd, pub, bat>>
    /\ UNCHANGED notMqtt

(* the task's first step *)
CoBegin ==
    /\ co.made /\ co.task = "ready" /\ ~co.must_cancel
    /\ co' = loop_top(co)
    /\ UNCHANGED <<upd, pub, bat>>
    /\ UNCHANGED notMqtt

(* the reconnect sleep is over *)
CoWake ==
    /\ co.made /\ co.task = "sleeping" /\ ~co.must_cancel
    /\ co' = loop_top(co)
    /\ UNCHANGED <<upd, pub, bat>>
    /\ UNCHANGED notMqtt

(* _connect_mqtt: the client context is entered *)
CoConnected ==
    /\ co.made /\ co.task = "connecting" /\ ~co.must_cancel
    /\ co.poll_msg_id < MaxPolls
    /\ co' = [co EXCEPT !.mqtt_client = TRUE, !.mqtt_connected = TRUE,
                        !.open = TRUE, !.task = "subscribing"]
    /\ UNCHANGED <<upd, pub, bat>>
    /\ UNCHANGED notMqtt

CoConnectFailed ==
    /\ co.made /\ co.task = "connecting" /\ ~co.must_cancel
    /\ co' = connection_error(co)
    /\ UNCHANGED <<upd, pub, bat>>
    /\ UNCHANGED notMqtt

(* the three subscriptions and the initial poll request, whose publish *)
(* may fail without an exception leaving _send_poll_request            *)
CoSubscribed ==
    /\ co.made /\ co.task = "subscribing" /\ ~co.must_cancel
    /\ co' = [co EXCEPT !.poll_msg_id = @ + 1, !.task = "listening"]
    /\ UNCHANGED <<upd, pub, bat>>
    /\ UNCHANGED notMqtt

CoSubscribeFailed ==
    /\ co.made /\ co.task = "subscribing" /\ ~co.must_cancel
    /\ co' = connection_error(co)
    /\ UNCHANGED <<upd, pub, bat>>
    /\ UNCHANGED notMqtt

(* what the coordinator's parser makes of a payload: a non-empty dict, *)
(* None, or an exception                                               *)
CoMessageSamples ==
    { [topic |-> "up", parse |-> "data"], [topic |-> "up", parse |-> "none"],
      [topic |-> "up", parse |-> "raises"], [topic |-> "event", parse |-> "data"],
      [topic |-> "alarm", parse |-> "data"] }

(* a cache write that does not look at the parse result *)
process_telemetry_always(c, message, id) ==
    [c EXCEPT !.last_data = id, !.notified = Append(@, id)]

(* _process_telemetry; id stands for the parsed dict of this frame *)
process_telemetry(c, message, id) ==
    IF message.parse = "data"
    THEN [c EXCEPT !.last_data = id, !.notified = Append(@, id)]
    ELSE c

(* _handle_message *)
handle_message(c, message, id) ==
    IF message.topic \in {"up", "event"}
    THEN process_telemetry(c, message, id)
    ELSE c

(* one message of the async for *)
CoMessage ==
    /\ co.made /\ co.task = "listening" /\ ~co.must_cancel
    /\ Len(co.arrived) < MaxMessages
    /\ \E message \in CoMessageSamples :
          IF co.shutdown
          THEN co' = stream_over(co)
          ELSE co' = handle_message([co EXCEPT !.arrived = Append(@, message)],
                                    message, Len(co.arrived) + 1)
    /\ UNCHANGED <<upd, pub, bat>>
    /\ UNCHANGED notMqtt

(* the message stream ends *)
CoStreamEnds ==
    /\ co.made /\ co.task = "listening" /\ ~co.must_cancel
    /\ co' = stream_over(co)
    /\ UNCHANGED <<upd, pub, bat>>
    /\ UNCHANGED notMqtt

(* the message stream raises *)
CoStreamError ==
    /\ co.made /\ co.task = "listening" /\ ~co.must_cancel
    /\ co' = connection_error(co)
    /\ UNCHANGED <<upd, pub, bat>>
    /\ UNCHANGED notMqtt

(* the task is resumed with CancelledError: out of the client context and *)
(* the loop (except asyncio.CancelledError: break), or out of the sleep   *)
CoCancelled ==
    /\ co.made /\ co.must_cancel
    /\ co' = [co EXCEPT !.task = "done", !.must_cancel = FALSE, !.open = FALSE,
                        !.sleep = 0]
    /\ UNCHANGED <<upd, pub, bat>>
    /\ UNCHANGED notMqtt

(* async_shutdown *)
CoShutdown ==
    /\ co.made /\ ~co.shutdown
    /\ co' = [co EXCEPT !.shutdown = TRUE,
                        !.must_cancel = co.task \notin {"none", "done"}]
    /\ UNCHANGED <<upd, pub, bat>>
    /\ UNCHANGED notMqtt

(* publish_command: False without publishing unless client and flag are *)
(* set; upd and pub describe the call made last                         *)
CoPublishCommand ==
    /\ co.made /\ upd.pc \in {"idle", "done"}
    /\ IF ~co.mqtt_client \/ ~co.mqtt_connected
       THEN pub' = [done |-> TRUE, returned |-> FALSE, attempted |-> FALSE,
                    open |-> co.open]
       ELSE \E ok \in BOOLEAN :
               /\ ok => co.open
               /\ pub' = [done |-> TRUE, returned |-> ok, attempted |-> TRUE,
                          open |-> co.open]
    /\ upd' = NoUpdate
    /\ UNCHANGED <<co, bat>>
    /\ UNCHANGED notMqtt

(* _send_poll_request up to its publish: the number of publishes started *)
send_poll_request(c) ==
    IF ~c.mqtt_client \/ ~c.mqtt_connected
    THEN [co |-> c, publishes |-> 0]
    ELSE [co |-> [c EXCEPT !.poll_msg_id = @ + 1], publishes |-> 1]

(* the polling switch: the option and set_polling_enabled *)
CoSetPolling ==
    /\ co.made
    /\ \E enabled \in BOOLEAN :
          LET c == [co EXCEPT !.enable_polling = enabled]
          IN  IF enabled /\ c.mqtt_connected
              THEN /\ c.poll_msg_id < MaxPolls
                   /\ co' = send_poll_request(c).co
              ELSE co' = c
    /\ UNCHANGED <<upd, pub, bat>>
    /\ UNCHANGED notMqtt

(* a route that polls whenever polling is enabled *)
update_route_poll_only(enable_polling, mqtt_connected) ==
    IF enable_polling THEN "poll" ELSE "none"

(* the branch _async_update_data takes *)
update_route(enable_polling, mqtt_connected) ==
    IF enable_polling
    THEN IF mqtt_connected THEN "poll" ELSE "rest"
    ELSE "none"

(* _async_update_data up to its await of the publish or of request_update, *)
(* or to its return when polling is off                                    *)
CoUpdateBegin ==
    /\ co.made /\ upd.pc \in {"idle", "done"}
    /\ LET route == update_route(co.enable_polling, co.mqtt_connected)
           call == [NoUpdate EXCEPT !.enable_polling = co.enable_polling,
                                    !.mqtt_connected = co.mqtt_connected]
       IN  IF route = "poll"
           THEN /\ co.poll_msg_id < MaxPolls
                /\ LET p == send_poll_request(co)
                   IN  /\ co' = p.co
                       /\ upd' = IF p.publishes = 0
                                 THEN [call EXCEPT !.pc = "done", !.returned = co.last_data]
                                 ELSE [call EXCEPT !.pc = "poll", !.publishes = 1,
                                                   !.topic = "down"]
           ELSE IF route = "rest"
           THEN /\ upd' = [call EXCEPT !.pc = "rest", !.rest = 1]
                /\ co' = co
           ELSE /\ upd' = [call EXCEPT !.pc = "done", !.returned = co.last_data]
                /\ co' = co
    /\ pub' = NoPublish
    /\ UNCHANGED bat
    /\ UNCHANGED notMqtt

(* the publish or request_update is over, well or with an exception that is *)
(* caught; the cached data are returned                                     *)
CoUpdateEnd ==
    /\ co.made /\ upd.pc \in {"poll", "rest"}
    /\ \E failed \in BOOLEAN :
          /\ upd.pc = "poll" /\ ~co.open => failed
          /\ upd' = [upd EXCEPT !.pc = "done", !.failed = failed,
                                !.returned = co.last_data]
    /\ UNCHANGED <<co, pub, bat>>
    /\ UNCHANGED notMqtt

(* EsySunhomeBattery.__init__ *)
NewBattery ==
    [made |-> TRUE, connected |-> FALSE, client |-> FALSE, listener_task |-> FALSE,
     task |-> "none", must_cancel |-> FALSE, open |-> FALSE, sleep |-> 0,
     disconnected |-> FALSE, last_state |-> NoTelemetry,
     arrived |-> <<>>, notified |-> <<>>]

NoBattery == [NewBattery EXCEPT !.made = FALSE]

(* payloads on the battery's topics: two frames that parse, one cut short, *)
(* an empty payload                                                        *)
BatPayloadSamples ==
    { Buf(ConFrameOf(<<4>>)), Buf(ConFrameOf(<<99, 5>>)),
      Buf(SubSeq(ConFrameOf(<<4>>), 1, 10)), Buf(<<>>) }

BatMessageSamples ==
    { [topic |-> "up", payload |-> p] : p \in BatPayloadSamples }
    \cup { [topic |-> "alarm", payload |-> Buf(ConFrameOf(<<4>>))] }

(* _handle_telemetry *)
handle_telemetry(b, payload) ==
    IF Len(payload.bytes) = 0
    THEN b
    ELSE LET telemetry == parse_message(payload)
         IN  IF telemetry.raised \/ ~telemetry.some
             THEN b
             ELSE [b EXCEPT !.last_state = telemetry,
                            !.notified = Append(@, telemetry)]

(* _process_message *)
process_message(b, message) ==
    IF message.topic = "up"
    THEN handle_telemetry(b, message.payload)
    ELSE b

(* finally: if self._connected: await asyncio.sleep(5) *)
bat_finally(b) ==
    IF b.connected
    THEN [b EXCEPT !.task = "sleeping", !.sleep = BATTERY_RECONNECT_DELAY]
    ELSE [b EXCEPT !.task = "done", !.sleep = 0]

(* while self._connected *)
bat_loop_top(b) ==
    IF b.connected
    THEN [b EXCEPT !.task = "connecting", !.sleep = 0]
    ELSE [b EXCEPT !.task = "done", !.sleep = 0]

(* connect *)
BatConnect ==
    /\ bat.made /\ bat.task = "none" /\ ~bat.listener_task
    /\ bat' = [bat EXCEPT !.task = "ready", !.listener_task = TRUE]
    /\ UNCHANGED <<co, upd, pub>>
    /\ UNCHANGED notMqtt

(* _listen's first step: self._connected = True and the loop *)
BatBegin ==
    /\ bat.made /\ bat.task = "ready" /\ ~bat.must_cancel
    /\ bat' = bat_loop_top([bat EXCEPT !.connected = TRUE])
    /\ UNCHANGED <<co, upd, pub>>
    /\ UNCHANGED notMqtt

BatWake ==
    /\ bat.made /\ bat.task = "sleeping" /\ ~bat.must_cancel
    /\ bat' = bat_loop_top(bat)
    /\ UNCHANGED <<co, upd, pub>>
    /\ UNCHANGED notMqtt

BatConnected ==
    /\ bat.made /\ bat.task = "connecting" /\ ~bat.must_cancel
    /\ bat' = [bat EXCEPT !.client = TRUE, !.open = TRUE, !.task = "subscribing"]
    /\ UNCHANGED <<co, upd, pub>>
    /\ UNCHANGED notMqtt

(* except aiomqtt.MqttError: self._client = None, then finally *)
BatError ==
    /\ bat.made /\ bat.task \in Awaiting /\ ~bat.must_cancel
    /\ bat' = bat_finally([bat EXCEPT !.open = FALSE, !.client = FALSE])
    /\ UNCHANGED <<co, upd, pub>>
    /\ UNCHANGED notMqtt

BatSubscribed ==
    /\ bat.made /\ bat.task = "subscribing" /\ ~bat.must_cancel
    /\ bat' = [bat EXCEPT !.task = "listening"]
    /\ UNCHANGED <<co, upd, pub>>
    /\ UNCHANGED notMqtt

BatMessage ==
    /\ bat.made /\ bat.task = "listening" /\ ~bat.must_cancel
    /\ Len(bat.arrived) < MaxMessages
    /\ \E message \in BatMessageSamples :
          bat' = process_message([bat EXCEPT !.arrived = Append(@, message)], message)
    /\ UNCHANGED <<co, upd, pub>>
    /\ UNCHANGED notMqtt

(* the message stream ends, or an exception other than MqttError leaves *)
(* the try block, then finally                                          *)
BatStreamEnds ==
    /\ bat.made /\ bat.task \in Awaiting /\ ~bat.must_cancel
    /\ bat' = bat_finally([bat EXCEPT !.open = FALSE])
    /\ UNCHANGED <<co, upd, pub>>
    /\ UNCHANGED notMqtt

(* the task is resumed with CancelledError: re-raised through finally, *)
(* which sleeps first when _connected is still set                     *)
BatCancelled ==
    /\ bat.made /\ bat.must_cancel
    /\ bat' = [bat EXCEPT !.task = "done", !.must_cancel = FALSE, !.open = FALSE,
                          !.sleep = 0]
    /\ UNCHANGED <<co, upd, pub>>
    /\ UNCHANGED notMqtt

(* disconnect up to its await of the task *)
BatDisconnect ==
    /\ bat.made /\ ~bat.disconnected
    /\ IF ~bat.listener_task
       THEN bat' = bat
       ELSE bat' = [bat EXCEPT !.connected = FALSE, !.disconnected = TRUE,
                               !.must_cancel = bat.task # "done"]
    /\ UNCHANGED <<co, upd, pub>>
    /\ UNCHANGED notMqtt

(* disconnect after the task has ended *)
BatDisconnectEnd ==
    /\ bat.made /\ bat.disconnected /\ bat.task = "done" /\ bat.listener_task
    /\ bat' = [bat EXCEPT !.listener_task = FALSE, !.client = FALSE]
    /\ UNCHANGED <<co, upd, pub>>
    /\ UNCHANGED notMqtt

MqttIdle ==
    /\ co = NoCoordinator
    /\ upd = NoUpdate
    /\ pub = NoPublish
    /\ bat = NoBattery

InitMqtt ==
    /\ \/ co = NewCoordinator /\ bat = NoBattery
       \/ co = NoCoordinator /\ bat = NewBattery
    /\ upd = NoUpdate
    /\ pub = NoPublish

-----------------------------------------------------------------------------
(* Specifications *)

NextHeader == Serialize \/ Reparse

StartHeader ==
    /\ InitHeader /\ SegIdle /\ MsgIdle /\ CmdIdle /\ ConIdle /\ SwapIdle /\ SeqIdle /\ WordIdle
    /\ ModeIdle
    /\ UidIdle
    /\ ApiIdle
    /\ MqttIdle

SpecHeader == StartHeader /\ [][NextHeader]_vars

NextSegments == ParseParamsList

StartSegments ==
    /\ HdrIdle /\ InitSegments /\ MsgIdle /\ CmdIdle /\ ConIdle /\ SwapIdle /\ SeqIdle /\ WordIdle
    /\ ModeIdle
    /\ UidIdle
    /\ ApiIdle
    /\ MqttIdle

SpecSegments == StartSegments /\ [][NextSegments]_vars

NextMessage == FromBytes \/ ParseMessage

StartMessage ==
    /\ HdrIdle /\ SegIdle /\ InitMessage /\ CmdIdle /\ ConIdle /\ SwapIdle /\ SeqIdle /\ WordIdle
    /\ ModeIdle
    /\ UidIdle
    /\ ApiIdle
    /\ MqttIdle

SpecMessage == StartMessage /\ [][NextMessage]_vars

NextBuilder == BuildWriteCommand \/ BuildReadCommand \/ BuildManyCommands

StartBuilder ==
    /\ HdrIdle /\ SegIdle /\ MsgIdle /\ InitBuilder /\ ConIdle /\ SwapIdle /\ SeqIdle /\ WordIdle
    /\ ModeIdle
    /\ UidIdle
    /\ ApiIdle
    /\ MqttIdle

SpecBuilder == StartBuilder /\ [][NextBuilder]_vars

NextConcurrent ==
    \E c \in Callers :
        \/ EnterParse(c) \/ SetData(c) \/ SetPosition(c) \/ ReadCount(c)
        \/ LoopTest(c) \/ ReadField(c) \/ ReadValues(c) \/ AppendSegment(c)
        \/ BuildResult(c)

StartConcurrent ==
    /\ HdrIdle /\ SegIdle /\ MsgIdle /\ CmdIdle /\ InitConcurrent /\ SwapIdle /\ SeqIdle /\ WordIdle
    /\ ModeIdle
    /\ UidIdle
    /\ ApiIdle
    /\ MqttIdle

SpecConcurrent == StartConcurrent /\ [][NextConcurrent]_vars

NextSwap == UpdateProtocol \/ DecodeBegin \/ DecodeSegment \/ DecodeEnd

StartSwap ==
    /\ HdrIdle /\ SegIdle /\ MsgIdle /\ CmdIdle /\ ConIdle /\ InitSwap /\ SeqIdle /\ WordIdle
    /\ ModeIdle
    /\ UidIdle
    /\ ApiIdle
    /\ MqttIdle

SpecSwap == StartSwap /\ [][NextSwap]_vars

StartDerived ==
    /\ HdrIdle /\ SegIdle /\ InitDerived /\ CmdIdle /\ ConIdle /\ SwapIdle
    /\ SeqIdle /\ WordIdle
    /\ ModeIdle
    /\ UidIdle
    /\ ApiIdle
    /\ MqttIdle

SpecDerived == StartDerived /\ [][NextMessage]_vars

NextSequence == ParseNext

StartSequence ==
    /\ HdrIdle /\ SegIdle /\ MsgIdle /\ CmdIdle /\ ConIdle /\ SwapIdle
    /\ InitSequence /\ WordIdle
    /\ ModeIdle
    /\ UidIdle
    /\ ApiIdle
    /\ MqttIdle

SpecSequence == StartSequence /\ [][NextSequence]_vars

NextMode == ModeText

StartMode ==
    /\ HdrIdle /\ SegIdle /\ MsgIdle /\ CmdIdle /\ ConIdle /\ SwapIdle
    /\ SeqIdle /\ WordIdle /\ InitMode /\ UidIdle
    /\ ApiIdle
    /\ MqttIdle

SpecMode == StartMode /\ [][NextMode]_vars

NextUid == UserIdToBytes

StartUid ==
    /\ HdrIdle /\ SegIdle /\ MsgIdle /\ CmdIdle /\ ConIdle /\ SwapIdle
    /\ SeqIdle /\ WordIdle /\ ModeIdle /\ InitUid
    /\ ApiIdle
    /\ MqttIdle

SpecUid == StartUid /\ [][NextUid]_vars

NextWord == ToInt16

StartWord ==
    /\ HdrIdle /\ SegIdle /\ MsgIdle /\ CmdIdle /\ ConIdle /\ SwapIdle
    /\ SeqIdle /\ InitWord
    /\ ModeIdle
    /\ UidIdle
    /\ ApiIdle
    /\ MqttIdle

SpecWord == StartWord /\ [][NextWord]_vars

NextApi ==
    \/ CallApi
    \/ GetBearerToken
    \/ GetBearerTokenAfterAuth
    \/ GetBearerTokenAfterFetch
    \/ RetryInvoke
    \/ RetryAwait
    \/ Authenticate
    \/ AuthenticateAfterFetch
    \/ FetchDevice
    \/ FetchDeviceAfterRequest
    \/ MakeRequestWithAuth
    \/ MakeRequestSend
    \/ MakeRequestResend
    \/ RequestUpdate
    \/ RequestUpdateAfterRequest
    \/ SetMode
    \/ SetModeAfterRequest

StartApi ==
    /\ HdrIdle /\ SegIdle /\ MsgIdle /\ CmdIdle /\ ConIdle /\ SwapIdle
    /\ SeqIdle /\ WordIdle /\ ModeIdle /\ UidIdle /\ InitApi
    /\ MqttIdle

SpecApi == StartApi /\ [][NextApi]_vars

(* the event loop runs a coroutine that can run *)
SpecApiFair == StartApi /\ [][NextApi]_vars /\ WF_vars(NextApi)

CoTask ==
    \/ CoBegin
    \/ CoWake
    \/ CoCancelled

BatTask ==
    \/ BatBegin
    \/ BatWake
    \/ BatCancelled

NextMqtt ==
    \/ CoStartTask
    \/ CoBegin
    \/ CoWake
    \/ CoConnected
    \/ CoConnectFailed
    \/ CoSubscribed
    \/ CoSubscribeFailed
    \/ CoMessage
    \/ CoStreamEnds
    \/ CoStreamError
    \/ CoCancelled
    \/ CoShutdown
    \/ CoPublishCommand
    \/ CoSetPolling
    \/ CoUpdateBegin
    \/ CoUpdateEnd
    \/ BatConnect
    \/ BatBegin
    \/ BatWake
    \/ BatConnected
    \/ BatError
    \/ BatSubscribed
    \/ BatMessage
    \/ BatStreamEnds
    \/ BatCancelled
    \/ BatDisconnect
    \/ BatDisconnectEnd

StartMqtt ==
    /\ HdrIdle /\ SegIdle /\ MsgIdle /\ CmdIdle /\ ConIdle /\ SwapIdle
    /\ SeqIdle /\ WordIdle /\ ModeIdle /\ UidIdle /\ ApiIdle /\ InitMqtt

SpecMqtt == StartMqtt /\ [][NextMqtt]_vars

(* the listener tasks with what starts, feeds and stops them, without the *)
(* coordinator's other handlers                                           *)
NextListen ==
    \/ CoStartTask
    \/ CoBegin
    \/ CoWake
    \/ CoConnected
    \/ CoConnectFailed
    \/ CoSubscribed
    \/ CoSubscribeFailed
    \/ CoMessage
    \/ CoStreamEnds
    \/ CoStreamError
    \/ CoCancelled
    \/ CoShutdown
    \/ BatConnect
    \/ BatBegin
    \/ BatWake
    \/ BatConnected
    \/ BatError
    \/ BatSubscribed
    \/ BatMessage
    \/ BatStreamEnds
    \/ BatCancelled
    \/ BatDisconnect
    \/ BatDisconnectEnd

(* the event loop resumes a task that is ready, woken by its timer or *)
(* cancelled                                                          *)
SpecListenFair ==
    StartMqtt /\ [][NextListen]_vars /\ WF_vars(CoTask) /\ WF_vars(BatTask)

-----------------------------------------------------------------------------
(* Claims *)

(* C1: for every in-range header h, to_bytes(h) succeeds and *)
(* from_bytes(to_bytes(h)) is a header equal to h in every field. *)
C1_HeaderRoundTrip ==
    /\ ser.done => ser.ok
    /\ back.done => back.res = SomeHeader(h)

(* The segments that are complete in a payload: walking from the count, a *)
(* segment counts when its 8-byte sub-header and its params_num * 2 value *)
(* bytes are all there; the walk ends at the first one that is not.       *)
RECURSIVE CompleteSegments(_, _, _, _)
CompleteSegments(data, position, left, segments) ==
    IF left = 0 \/ position + 8 > Len(data)
    THEN segments
    ELSE LET word(k) == data[position + k + 1] * 256 + data[position + k + 2]
             size == 8 + 2 * word(6)
         IN  IF position + size > Len(data)
             THEN segments
             ELSE CompleteSegments(data, position + size, left - 1,
                      Append(segments,
                             ParamSegment(word(0), word(2), word(4), word(6),
                                          SubSeq(data, position + 9, position + size))))

(* C2: when the declared segment count or a declared value length exceeds *)
(* the bytes that remain, parse_params_list returns exactly the segments  *)
(* fully decoded before that point, in order, and nothing after it.       *)
C2_SegmentsBeforeTruncation ==
    plist.done /\ Len(seg_input) >= 2 =>
        plist.res.segments =
            CompleteSegments(seg_input, 2, seg_input[1] * 256 + seg_input[2], <<>>)

(* C3: every ParamSegment returned by parse_params_list has          *)
(* len(values) = params_num * 2; a segment cut off is not returned.  *)
C3_ValuesLength ==
    plist.done =>
        \A i \in 1 .. Len(plist.res.segments) :
            Len(plist.res.segments[i].values) = plist.res.segments[i].params_num * 2

ShortFrame == frame.isNone \/ Len(frame.bytes) < 24

(* C4: for a buffer of length 0..23, and for None, MsgHeader.from_bytes *)
(* returns None and parse_message returns None; neither raises for any  *)
(* buffer.                                                              *)
C4_TruncationSafety ==
    /\ hres.done => ~hres.res.raised
    /\ tres.done => ~tres.res.raised
    /\ hres.done /\ ShortFrame => ~hres.res.some
    /\ tres.done /\ ShortFrame => ~tres.res.some

C4_Witness ==
    /\ hres.done /\ tres.done
    /\ ~frame.isNone /\ Len(frame.bytes) = 23
    /\ ~hres.res.some /\ ~tres.res.some

(* the data_length field of a frame of at least 24 bytes *)
Announced == frame.bytes[23] * 256 + frame.bytes[24]

Available == Len(frame.bytes) - 24

(* C5: for a frame of at least 24 bytes parse_message decodes exactly the *)
(* bytes frame[24 : 24 + min(data_length, len(frame) - 24)]: nothing      *)
(* outside the frame, and nothing after data_length.                      *)
C5_DataLengthClamp ==
    tres.done /\ ~ShortFrame =>
        LET n == Min(Announced, Available)
            data == [i \in 1 .. n |-> frame.bytes[24 + i]]
        IN  /\ tres.res.some
            /\ tres.res.val = build_telemetry_data(parse_params_list(data))

C5_Witness ==
    /\ tres.done /\ ~ShortFrame
    /\ Announced > Available /\ Available >= 10
    /\ tres.res.some
    /\ DOMAIN tres.res.val.all_values.regs # {}

(* C6: in every snapshot battery_import > 0 implies battery_export = 0 and *)
(* conversely, grid_import and grid_export are never both non-zero, and    *)
(* all four are non-negative.                                              *)
C6_MutualExclusivity ==
    tres.done /\ tres.res.some =>
        LET t == tres.res.val
        IN  /\ battery_import(t) > 0 => battery_export(t) = 0
            /\ battery_export(t) > 0 => battery_import(t) = 0
            /\ ~(grid_import(t) > 0 /\ grid_export(t) > 0)
            /\ battery_import(t) >= 0 /\ battery_export(t) >= 0
            /\ grid_import(t) >= 0 /\ grid_export(t) >= 0

C6_Witness ==
    /\ tres.done /\ tres.res.some
    /\ battery_import(tres.res.val) > 0
    /\ grid_export(tres.res.val) > 0

(* C7: for every decoded frame the snapshot's battery_soc lies in 0..100; *)
(* an out-of-range total-SOC register is never surfaced.                  *)
C7_SocInRange ==
    tres.done /\ tres.res.some =>
        battery_soc(tres.res.val) \in 0 .. 100

C9_ConcurrentSafe ==
    \A c \in Callers :
        callers[c].pc = "done" =>
            callers[c].result = parse_message(Buf(callers[c].frame))

(* the msg_id field of a frame a build call returned *)
MsgIdOf(cmd) == bytes_to_uint32_be(Slice(cmd.bytes, 4, 8))

(* C10: every build call returns a frame, also when the counter passes   *)
(* the width of the msg_id field; the first frame carries msg_id 1 and   *)
(* each later one the msg_id of the frame before it plus one.            *)
C10_MsgIdIncreases ==
    /\ cmd_last.done => cmd_last.ok
    /\ cmd_last.done /\ cmd_last.ok /\ ~cmd_prev.done => MsgIdOf(cmd_last) = U32(0, 1)
    /\ cmd_last.done /\ cmd_last.ok /\ cmd_prev.done /\ cmd_prev.ok =>
           /\ Less(MsgIdOf(cmd_prev), MsgIdOf(cmd_last))
           /\ MsgIdOf(cmd_last) = Inc(MsgIdOf(cmd_prev))

(* the header of a frame a build call returned, as from_bytes reads it *)
HeaderOf(cmd) == from_bytes(Buf(Slice(cmd.bytes, 0, HEADER_SIZE)))

(* C11: for register_address and value in 0..65535 the write command is    *)
(* 28 bytes: function code 0x06 at byte 16, data_length 4 in bytes 22-23,  *)
(* the address big-endian in bytes 24-25, the value in bytes 26-27, and    *)
(* the header carries the config_id, page_index and source_id the caller   *)
(* asked for.                                                              *)
C11_WriteSingleLayout ==
    cmd_last.done /\ cmd_last.ok /\ cmd_req.kind = "write"
    /\ cmd_req.register_address \in 0 .. 65535 /\ cmd_req.value \in 0 .. 65535 =>
        LET b == cmd_last.bytes
            hd == HeaderOf(cmd_last)
        IN  /\ Len(b) = 28
            /\ b[17] = 6
            /\ b[23] * 256 + b[24] = 4
            /\ b[25] * 256 + b[26] = cmd_req.register_address
            /\ b[27] * 256 + b[28] = cmd_req.value
            /\ hd.some
            /\ hd.val.config_id = U32(0, cmd_req.config_id)
            /\ hd.val.page_index = cmd_req.page_index
            /\ hd.val.source_id = cmd_req.source_id

(* C12: for every frame, of any length and content, parse_message returns *)
(* None, and then only because no header could be parsed, or a snapshot;  *)
(* it never raises, whatever counts, ids, addresses and lengths the       *)
(* payload announces.                                                     *)
C12_NoFatalDecodeError ==
    tres.done =>
        /\ ~tres.res.raised
        /\ ~tres.res.some =>
               ~from_bytes(Buf(Slice(frame.bytes, 0, HEADER_SIZE))).some

C12_Witness ==
    /\ tres.done /\ tres.res.some
    /\ Len(frame.bytes) >= 26
    /\ frame.bytes[25] * 256 + frame.bytes[26] = 65535
    /\ DOMAIN tres.res.val.all_values.regs # {}

(* C13: the snapshot a parser returns for a frame, after any frames it    *)
(* parsed before (also cut or failed ones), is the snapshot a freshly     *)
(* made parser returns for that frame.                                    *)
C13_NoCrossFrameState ==
    sq.n > 0 => sq.result = parse_message(sq.frame)

C13_Witness ==
    /\ sq.n >= 2
    /\ sq.earlier = <<Buf(SubSeq(ConFrameOf(<<5, 4>>), 1, 47))>>
    /\ sq.frame = Buf(ConFrameOf(<<4>>))
    /\ sq.result.some
    /\ sq.result.val.battery_soc = 150

(* C16: for all bytes b0, b1, bytes_to_int16_be(b0, b1) is the            *)
(* two's-complement value of the big-endian word: 256*b0 + b1, less 65536 *)
(* when that is 0x8000 or more; it lies in -32768..32767.                 *)
C16_SignDecoding ==
    w16.done =>
        LET word == 256 * w16.b0 + w16.b1
        IN  /\ w16.res = (IF word >= 32768 THEN word - 65536 ELSE word)
            /\ w16.res \in -32768 .. 32767
            /\ (w16.b0 = 128 /\ w16.b1 = 0) => w16.res = -32768
            /\ (w16.b0 = 127 /\ w16.b1 = 255) => w16.res = 32767
            /\ (w16.b0 = 0 /\ w16.b1 = 1) => w16.res = 1

C16_Witness ==
    /\ w16.done /\ w16.b0 = 128 /\ w16.b1 = 0 /\ w16.res = -32768

(* the segments parse_message found in the frame *)
FrameSegments ==
    parse_params_list(
        [i \in 1 .. Min(Announced, Available) |-> frame.bytes[24 + i]]).segments

Unknown(segment) == segment.segment_id \notin DOMAIN SEGMENT_KEY_MAP

(* the registers of a segment that are in its values *)
Present(segment) ==
    { i \in 0 .. segment.params_num - 1 : 2 * i + 2 <= Len(segment.values) }

Covers(segment, a) ==
    \E i \in Present(segment) : segment.segment_address + i = a

(* C14: for a segment whose id has no entry in the key map, every register *)
(* i < params_num present in its values yields reg_<segment_address + i>   *)
(* holding the big-endian word read as signed 16-bit (unless a later       *)
(* segment of the frame carries the same address), and the semantic keys   *)
(* of the snapshot are those the other segments of the frame yield alone.  *)
C14_UnknownRegisterPreserved ==
    tres.done /\ tres.res.some =>
        LET segs == FrameSegments
            all_values == tres.res.val.all_values
            known == SelectSeq(segs, LAMBDA g : ~Unknown(g))
        IN  /\ \A k \in 1 .. Len(segs) :
                   Unknown(segs[k]) =>
                       \A i \in Present(segs[k]) :
                           LET a == segs[k].segment_address + i
                               word == 256 * segs[k].values[2 * i + 1]
                                       + segs[k].values[2 * i + 2]
                           IN  (\A j \in k + 1 .. Len(segs) : ~Covers(segs[j], a)) =>
                                   /\ a \in DOMAIN all_values.regs
                                   /\ all_values.regs[a] =
                                          (IF word >= 32768 THEN word - 65536 ELSE word)
            /\ all_values.named = all_segment_values(known, 1, EmptyValues).named
            /\ tres.res.val = [build_telemetry_data(ParamsListBean(Len(known), known))
                                   EXCEPT !.all_values = all_values]

C14_Witness ==
    /\ tres.done /\ tres.res.some
    /\ 9999 \in DOMAIN tres.res.val.all_values.regs
    /\ tres.res.val.all_values.regs[9999] = -1
    /\ "batteryPower" \in DOMAIN tres.res.val.all_values.named

(* the fields of TelemetryData other than the two debugging dicts *)
DocumentedFields ==
    { "pv_power", "pv1_power", "pv2_power", "battery_power", "ct1_power",
      "ct2_power", "load_power", "grid_power",
      "energy_flow_pv_total_power", "energy_flow_batt_power",
      "energy_flow_grid_power", "energy_flow_load_total_power",
      "on_off_grid_mode", "system_run_mode", "system_run_status",
      "battery_status", "grid_status", "inv_status", "battery_soc",
      "battery_voltage", "battery_current", "batt_num", "pv1_voltage",
      "pv1_current", "pv2_voltage", "pv2_current", "grid_voltage",
      "grid_frequency", "inv_temperature", "inv_output_voltage",
      "inv_output_frequency", "daily_energy_generation",
      "total_energy_generation", "daily_power_consumption",
      "total_power_consumption", "daily_batt_charge_energy",
      "daily_batt_discharge_energy", "daily_grid_import",
      "daily_grid_export", "rated_power", "anti_backflow_percentage",
      "heating_state" }

(* the fields _build_telemetry_data fills with float(...) *)
FloatFields ==
    { "battery_voltage", "battery_current", "pv1_voltage", "pv1_current",
      "pv2_voltage", "pv2_current", "grid_voltage", "grid_frequency",
      "inv_output_voltage", "inv_output_frequency",
      "daily_energy_generation", "total_energy_generation",
      "daily_power_consumption", "total_power_consumption",
      "daily_batt_charge_energy", "daily_batt_discharge_energy",
      "daily_grid_import", "daily_grid_export" }

IsNumber(f, x) ==
    IF f \in FloatFields
    THEN x.num \in Int /\ x.den \in {1, 10, 100}
    ELSE x \in Int

IsZero(f, x) == IF f \in FloatFields THEN x.num = 0 ELSE x = 0

(* C15: every snapshot parse_message returns, also for a frame with no   *)
(* segment or with none of the known segments, has every documented      *)
(* field, holding a number, which is 0 when the frame did not carry it.  *)
C15_KnownKeysPresent ==
    tres.done /\ tres.res.some =>
        LET t == tres.res.val
        IN  /\ DocumentedFields \subseteq DOMAIN t
            /\ \A f \in DocumentedFields : IsNumber(f, t[f])
            /\ DOMAIN t.all_values.named = {} =>
                   \A f \in DocumentedFields : IsZero(f, t[f])

C15_Witness ==
    /\ tres.done /\ tres.res.some
    /\ DOMAIN tres.res.val.all_values.named = {}
    /\ DOMAIN tres.res.val.all_values.regs # {}
    /\ tres.res.val.load_power = 0

(* C17: for every decoded frame, whatever word the load register carries, *)
(* the snapshot's load_power is >= 0.                                     *)
C17_LoadPowerMagnitude ==
    tres.done /\ tres.res.some => tres.res.val.load_power >= 0

(* C18: the snapshot's total PV power is pv1Power + pv2Power, unless the *)
(* frame carries a PV-total register that is not 0, and then it is that  *)
(* register.                                                             *)
C18_PvPrecedence ==
    tres.done /\ tres.res.some =>
        LET t == tres.res.val
            named == t.all_values.named
            total == IF "energyFlowPvTotalPower" \in DOMAIN named
                     THEN IntOf(named["energyFlowPvTotalPower"]) ELSE 0
        IN  t.pv_power = (IF total # 0 THEN total ELSE t.pv1_power + t.pv2_power)

(* the keys of the grid segment that carry a grid power *)
GridCandidates == {"ct1Power", "gridActivePower"}

(* C19: the snapshot's grid power is that of a grid-power register the   *)
(* frame carries; when the frame carries none, it is load - pv + battery *)
(* (battery positive = charging), not 0.                                 *)
C19_GridDerivation ==
    tres.done /\ tres.res.some =>
        LET t == tres.res.val
            named == t.all_values.named
            carried == GridCandidates \cap DOMAIN named
        IN  IF carried = {}
            THEN t.grid_power = t.load_power - t.pv_power + t.battery_power
            ELSE \E k \in carried : t.grid_power = IntOf(named[k])

(* C20: battery_power < 0 exactly when battery_export > 0 and batteryLine *)
(* is 1; battery_power > 0 exactly when battery_import > 0 and            *)
(* batteryLine is 2; battery_power = 0 exactly when both are 0,           *)
(* batteryLine is 0 and battery_active is false.                          *)
C20_BatteryDirection ==
    tres.done /\ tres.res.some =>
        LET t == tres.res.val
        IN  /\ t.battery_power < 0 <=> (battery_export(t) > 0 /\ batteryLine(t) = 1)
            /\ t.battery_power > 0 <=> (battery_import(t) > 0 /\ batteryLine(t) = 2)
            /\ t.battery_power = 0 <=>
                   /\ battery_import(t) = 0 /\ battery_export(t) = 0
                   /\ batteryLine(t) = 0 /\ ~battery_active(t)

C20_Witness ==
    /\ tres.done /\ tres.res.some
    /\ tres.res.val.battery_power = -100
    /\ battery_export(tres.res.val) = 100
    /\ batteryLine(tres.res.val) = 1

(* C21: the label of mode code 1 is "Regular Mode", of 2 "Emergency     *)
(* Mode", of 3 "Electricity Sell Mode", of 5 "Battery Energy Management" *)
(* and of every other code, 0 and 4 included, a label that embeds the    *)
(* code; computing it never fails.                                       *)
C21_ModeLabel ==
    mode.done =>
        /\ mode.code = 1 => mode.label = Label("Regular Mode", <<>>)
        /\ mode.code = 2 => mode.label = Label("Emergency Mode", <<>>)
        /\ mode.code = 3 => mode.label = Label("Electricity Sell Mode", <<>>)
        /\ mode.code = 5 => mode.label = Label("Battery Energy Management", <<>>)
        /\ mode.code \notin {1, 2, 3, 5} => mode.label.embeds = <<mode.code>>

C21_Witness ==
    /\ mode.done /\ mode.code = 4
    /\ mode.label = Label("Unknown", <<4>>)

(* C22: user_id_to_bytes returns 8 bytes and never raises, for every     *)
(* string; for an empty or non-numeric string the bytes are zero; for a  *)
(* digit string they are the value's big-endian bytes right-aligned      *)
(* behind zero bytes (stated here for the values that fit in 8 bytes).   *)
C22_IdentifierEncoding ==
    uid_call.done =>
        LET vb == binary_bytes(uid_call.chars)
        IN  /\ uid_call.ok
            /\ Len(uid_call.bytes) = 8
            /\ ~isdigit(uid_call.chars) => uid_call.bytes = Zeros(8)
            /\ isdigit(uid_call.chars) /\ Len(vb) <= 8 =>
                   uid_call.bytes = Zeros(8 - Len(vb)) \o vb

(* the 16-bit reading a register's declared type asks for *)
Interpret(data_type, word) ==
    IF data_type = "signed" /\ word >= 32768 THEN word - 65536 ELSE word

(* C23: for every mapped register the decoded value is the coefficient    *)
(* times the signed or unsigned reading of the raw word that the          *)
(* register's declared type asks for (a signed register with raw 0xFFFF   *)
(* and coefficient 0.1 gives -0.1, not 6553.5).                           *)
C23_CoefficientOrdering ==
    tres.done /\ tres.res.some =>
        LET segs == FrameSegments
            named == tres.res.val.all_values.named
        IN  \A k \in 1 .. Len(segs) :
                (\A j \in k + 1 .. Len(segs) : segs[j].segment_id # segs[k].segment_id) =>
                    LET key_map == key_map_get(segs[k].segment_id)
                    IN  \A e \in 1 .. Len(key_map) :
                            key_map[e][1] * 2 + 2 <= Len(segs[k].values) =>
                                LET word == 256 * segs[k].values[key_map[e][1] * 2 + 1]
                                            + segs[k].values[key_map[e][1] * 2 + 2]
                                IN  /\ key_map[e][2] \in DOMAIN named
                                    /\ named[key_map[e][2]] =
                                           Num(Interpret(key_map[e][3], word),
                                               key_map[e][4])

C23_Witness ==
    /\ tres.done /\ tres.res.some
    /\ "batteryCurrent" \in DOMAIN tres.res.val.all_values.named
    /\ tres.res.val.all_values.named["batteryCurrent"] = Num(-1, 10)
    /\ tres.res.val.battery_current = Num(-1, 10)

(* C24: a get_bearer_token call on a client with an empty device id, with  *)
(* a server that accepts every request, comes to an end having sent the    *)
(* device-list GET, set device_id and returned.                            *)
C24_BootstrapTerminates ==
    (api_top.running /\ api_top.op = "get_bearer_token" /\ api_top.device_was_empty)
        ~> (/\ ~api_top.running
            /\ \/ api_top.faulted
               \/ /\ api_ret.kind = "value"
                  /\ api.device_id
                  /\ api_top.device_get)

RECURSIVE Power(_, _)
Power(x, k) == IF k = 0 THEN 1 ELSE x * Power(x, k - 1)

(* initial_delay * backoff_factor^(k-1), in milliseconds *)
Backoff(initial_delay, backoff_factor, k) ==
    (initial_delay * Power(backoff_factor, k - 1)) \div Power(10, k - 1)

(* C26: a call of a function wrapped by retry_with_backoff(max_retries=n)  *)
(* invokes it at most n+1 times; it returns at the first invocation that   *)
(* succeeds and invokes no more; when all n+1 invocations raise, it raises *)
(* the exception of the last; it sleeps once between two consecutive       *)
(* invocations and never after the last, the k-th sleep lasting            *)
(* initial_delay * backoff_factor^(k-1).                                   *)
C26_RetryWithBackoff ==
    LET f == api_finished.frame
        r == api_finished.ret
        ev == f.events
        n == f.max_retries
    IN  f.fn = "retry" =>
            /\ Cardinality({i \in 1 .. Len(ev) : ev[i].kind = "invoke"}) <= n + 1
            /\ \A i \in 1 .. Len(ev) :
                   /\ i % 3 = 1 => ev[i].kind = "invoke"
                   /\ i % 3 = 2 => ev[i].kind = "raised"
                   /\ i % 3 = 0 =>
                          /\ ev[i].kind = "sleep"
                          /\ ev[i].ms = Backoff(f.initial_delay, f.backoff_factor, i \div 3)
            /\ r.kind = "value" => ev[Len(ev)].kind = "invoke"
            /\ r.kind = "raise" =>
                   /\ Len(ev) = 3 * (n + 1) - 1
                   /\ r.exc = ev[Len(ev)].exc

C26_Witness ==
    LET f == api_finished.frame
        r == api_finished.ret
    IN  /\ f.fn = "retry" /\ f.func = "set_mode"
        /\ r.kind = "raise"
        /\ Len(f.events) = 11
        /\ f.events[6].ms = 3000 /\ f.events[9].ms = 4500
        /\ f.events[2].exc # f.events[11].exc
        /\ r.exc = f.events[11].exc

(* C27: in _make_request_with_auth a 401 answer, with retry_auth true,     *)
(* clears the token, obtains a new one and sends the same request once     *)
(* more with it, and that second answer is returned even if it is 401;     *)
(* on any other status, or with retry_auth false, the request is sent      *)
(* once; no call sends it more than twice.                                 *)
C27_SingleReauthentication ==
    LET f == api_finished.frame
        r == api_finished.ret
        sends == f.sends
    IN  f.fn = "_make_request_with_auth" =>
            /\ Len(sends) <= 2
            /\ r.kind = "value" =>
                   /\ Len(sends) >= 1
                   /\ r.status = sends[Len(sends)].status
            /\ r.kind = "value" /\ f.retry_auth /\ sends[1].status = 401 =>
                   /\ Len(sends) = 2
                   /\ sends[2].url = sends[1].url
                   /\ sends[2].token > sends[1].token
            /\ Len(sends) >= 1 /\ (~f.retry_auth \/ sends[1].status # 401) =>
                   /\ Len(sends) = 1
                   /\ r = Value(sends[1].status)

C27_Witness ==
    LET f == api_finished.frame
        r == api_finished.ret
    IN  /\ f.fn = "_make_request_with_auth"
        /\ Len(f.sends) = 2
        /\ f.sends[1].status = 401 /\ f.sends[2].status = 401
        /\ f.sends[2].token > f.sends[1].token
        /\ r = Value(401)

(* C25: _mqtt_connected is true only while the client context opened by   *)
(* _connect_mqtt is open, so publish_command on a closed client returns    *)
(* False without publishing.                                               *)
C25_FlagMatchesConnection ==
    /\ co.mqtt_connected => co.open
    /\ pub.done /\ ~pub.open => ~pub.attempted /\ ~pub.returned

(* what an _async_update_data call that has returned did *)
C28_Returned ==
    upd.pc = "done" =>
        /\ upd.enable_polling /\ upd.mqtt_connected =>
               upd.publishes = 1 /\ upd.topic = "down" /\ upd.rest = 0
        /\ upd.enable_polling /\ ~upd.mqtt_connected =>
               upd.rest = 1 /\ upd.publishes = 0
        /\ ~upd.enable_polling => upd.rest = 0 /\ upd.publishes = 0
        /\ ~upd.raised

CoGood(message) == message.topic \in {"up", "event"} /\ message.parse = "data"

(* the arrival numbers of the frames the coordinator caches, in order *)
CoExpected(arrived) ==
    SelectSeq([i \in 1 .. Len(arrived) |-> i], LAMBDA i : CoGood(arrived[i]))

(* a message the battery caches: a non-empty telemetry payload that parses *)
BatGood(message) ==
    /\ message.topic = "up"
    /\ Len(message.payload.bytes) > 0
    /\ parse_message(message.payload).some

(* the states the battery caches, in order of arrival *)
RECURSIVE BatExpected(_)
BatExpected(arrived) ==
    IF arrived = <<>>
    THEN <<>>
    ELSE LET earlier == BatExpected(SubSeq(arrived, 1, Len(arrived) - 1))
             message == arrived[Len(arrived)]
         IN  IF BatGood(message)
             THEN Append(earlier, parse_message(message.payload))
             ELSE earlier

(* C29: a telemetry frame that does not parse (no result, or an exception) *)
(* leaves _last_data / _last_state as it was and notifies nobody; each     *)
(* frame that parses replaces the cache and notifies once, in arrival      *)
(* order.                                                                  *)
C29_FailedFramesKeepCache ==
    /\ co.notified = CoExpected(co.arrived)
    /\ co.last_data = IF co.notified = <<>> THEN 0 ELSE co.notified[Len(co.notified)]
    /\ bat.notified = BatExpected(bat.arrived)
    /\ bat.last_state = IF bat.notified = <<>> THEN NoTelemetry
                        ELSE bat.notified[Len(bat.notified)]

C29_Witness ==
    /\ Len(co.arrived) = 2
    /\ co.arrived[1] = [topic |-> "up", parse |-> "data"]
    /\ co.arrived[2] = [topic |-> "up", parse |-> "raises"]
    /\ co.last_data = 1
    /\ co.notified = <<1>>

(* C30: after async_shutdown (coordinator) or disconnect (battery) no      *)
(* connection attempt starts, no message is processed and the listener     *)
(* task comes to an end; before that every connection failure or end of    *)
(* the stream leads to the reconnect sleep (30 s, 5 s) and the sleep to    *)
(* another connection attempt.                                             *)
C30_ShutdownStopsReconnection ==
    /\ [][co.shutdown =>
             /\ ~(co.task # "connecting" /\ co.task' = "connecting")
             /\ co.arrived' = co.arrived]_vars
    /\ [][bat.disconnected =>
             /\ ~(bat.task # "connecting" /\ bat.task' = "connecting")
             /\ bat.arrived' = bat.arrived]_vars
    /\ co.shutdown ~> (co.task \in {"none", "done"})
    /\ bat.disconnected ~> (bat.task = "done")
    /\ [](co.task = "sleeping" => co.sleep = 30)
    /\ [](bat.task = "sleeping" => bat.sleep = 5)
    /\ [][~co.shutdown /\ co.task \in Awaiting /\ co.task' \notin Awaiting =>
             co.task' = "sleeping"]_vars
    /\ [][~bat.disconnected /\ bat.task \in Awaiting /\ bat.task' \notin Awaiting =>
             bat.task' = "sleeping"]_vars
    /\ (co.task = "sleeping") ~> (co.task = "connecting" \/ co.shutdown)
    /\ (bat.task = "sleeping") ~> (bat.task = "connecting" \/ bat.disconnected)

C30_Witness ==
    /\ co.shutdown
    /\ co.task = "done"
    /\ Len(co.arrived) > 0
    /\ ~co.open

=============================================================================
